---- MODULE Spec2Model ----
(***************************************************************************)
(* Script extender cosave files (Mopy/bash/bosh/cosaves.py): the generic   *)
(* xSE container (header, plugin chunks, chunks), the Pluggy companion     *)
(* file, the rename of espm masters and the writes back to disk.           *)
(* Files and payloads are sequences of bytes (0..255); integers are packed *)
(* little-endian, as struct's '=' formats pack them on the supported       *)
(* platforms.                                                              *)
(***************************************************************************)
EXTENDS Integers, Sequences, FiniteSets, TLC

VARIABLES
    kind,             \* which object this run handles: "xse" or "pluggy"
    savefile_tag,     \* class attribute _xSEHeader.savefile_tag
    espm_chunk_type,  \* class attribute _xSEChunk._espm_chunk_type
    cosave_type,      \* class returned by the last get_cosave_type call
    selects,          \* number of get_cosave_type calls so far
    disk,             \* [cosave_path, temp |-> file]
    pc,               \* position of the run
    err,              \* the exception that ended an operation, or NoErr
    pos,              \* ins.tell() when the constructor returned or raised
    cosave_header,    \* the _xSEHeader fields, or NoHeader
    plugin_chunks,    \* the container's list of _PluginChunk
    pluggy,           \* PluggyFile fields: version, plugins, other, valid
    before,           \* plugin_chunks as they were before the last map_masters
    renames,          \* master_renames_dict of the last map_masters
    mapCount,         \* number of map_masters calls so far
    loads,            \* number of PluggyFile.load calls so far
    w,                \* the write in progress
    logged            \* what the last logStatObse call did, if there was one

vars == <<kind, savefile_tag, espm_chunk_type, cosave_type, selects, disk, pc,
          err, pos, cosave_header, plugin_chunks, pluggy, before, renames,
          mapCount, loads, w, logged>>

-----------------------------------------------------------------------------
(* Bounds of the model.                                                    *)

\* plugin chunks (groups) in one cosave
MaxGroups == 2
\* map_masters calls in one run
MaxMaps == 2
\* get_cosave_type calls in one run
MaxSelect == 2
\* PluggyFile.load calls in one run
MaxLoads == 2
\* How many times the environment replaces the Pluggy file.
MaxReplaced == 2
\* How many bytes a cosave may lack at its end.
MaxCut == 1

-----------------------------------------------------------------------------
(* Byte strings.                                                           *)

Min(a, b) == IF a < b THEN a ELSE b

\* ins.read(n) at offset p (0-based): at most n bytes, fewer at the end.
Read(b, p, n) == SubSeq(b, p + 1, Min(p + n, Len(b)))

\* struct_pack('=B'), ('=H'), ('=I') of a value in range.
PackU8(n) == <<n>>
PackU16(n) == <<n % 256, n \div 256>>
PackU32(n) == <<n % 256, (n \div 256) % 256, (n \div 65536) % 256, n \div 16777216>>

\* struct_unpack of a byte string of the exact size.
UnpU16(s) == s[1] + 256 * s[2]
UnpU32(s) == s[1] + 256 * s[2] + 65536 * s[3] + 16777216 * s[4]

\* '=I' packs only 0 <= n < 2^32; anything else raises struct.error.  The
\* values of the model stay below 2^31, so only the lower limit is met.
FitsU32(n) == n >= 0

RECURSIVE Concat(_)
Concat(ss) == IF ss = <<>> THEN <<>> ELSE Head(ss) \o Concat(Tail(ss))

-----------------------------------------------------------------------------
(* Text, paths and rename maps (bolt.decode, bolt.encode, bolt.GPath).     *)
(* Text is a sequence of code points; a path keeps its text (.s) and is    *)
(* hashed and compared by its case-folded text (.cs).                      *)

\* cp1252: byte 0x80 is U+20AC, the other bytes used here are themselves.
DecodeChar(b) == IF b = 128 THEN 8364 ELSE b
EncodeChar(c) == IF c = 8364 THEN 128 ELSE c
Decode(bytes) == [i \in 1..Len(bytes) |-> DecodeChar(bytes[i])]
Encode(text) == [i \in 1..Len(text) |-> EncodeChar(text[i])]

\* Path.cs: os.path.normcase of the text.
LowerChar(c) == IF c >= 65 /\ c <= 90 THEN c + 32 ELSE c
Lower(text) == [i \in 1..Len(text) |-> LowerChar(text[i])]

\* GPath(bytes).s
GPath(bytes) == Decode(bytes)

\* master_renames_dict.get(modName, modName): a dict keyed by paths, so by
\* case-folded text; m is a function from case-folded texts to texts.
DictGet(m, name) == IF Lower(name) \in DOMAIN m THEN m[Lower(name)] ELSE name

\* File names used as masters: "Ab", "ab", "Xyz", "q", and one with a euro sign.
tAb == <<65, 98>>
tab == <<97, 98>>
tXyz == <<88, 121, 122>>
txyz == <<120, 121, 122>>
tq == <<113>>
tEuro == <<8364, 49>>

\* The rename maps a caller passes: empty, one that lengthens, one that
\* shortens, a chain (a value that is itself a key), two entries, and one
\* with an entry that maps a name to itself.
RenameMaps ==
    { <<>>,
      (tab :> tXyz),
      (txyz :> tq),
      (tab :> tq) @@ (tq :> tXyz),
      (tq :> tEuro) @@ (txyz :> tAb),
      (tq :> tq) @@ (tab :> tAb) }

-----------------------------------------------------------------------------
(* Game dialects (get_cosave_type and the class attributes it sets).       *)

TagOVERRIDE == <<79, 86, 69, 82, 82, 73, 68, 69>>
TagOBSE == <<79, 66, 83, 69>>
TagSKSE == <<83, 75, 83, 69>>
TagF4SE == <<70, 52, 83, 69>>
TagFOSE == <<70, 79, 83, 69>>
TagNVSE == <<78, 86, 83, 69>>
TagPluggySave == <<80, 108, 117, 103, 103, 121, 83, 97, 118, 101>>

SDOM == <<83, 68, 79, 77>>
DOML == <<68, 79, 77, 76>>
RVTS == <<82, 86, 84, 83>>
RVRA == <<82, 86, 82, 65>>

Games == {"Oblivion", "Skyrim", "Skyrim Special Edition", "Fallout4",
          "Fallout3", "FalloutNV", "Morrowind"}

\* The class get_cosave_type returns.
CosaveTypeOf(game) ==
    CASE game = "Oblivion" -> "ObseCosave"
      [] game \in {"Skyrim", "Skyrim Special Edition", "Fallout4"} -> "SkseCosave"
      [] game \in {"Fallout3", "FalloutNV"} -> "xSECoSave"
      [] OTHER -> "None"

\* _xSEHeader.savefile_tag after get_cosave_type(game), given its value before.
TagAfter(game, tag) ==
    CASE game = "Oblivion" -> TagOBSE
      [] game \in {"Skyrim", "Skyrim Special Edition"} -> TagSKSE
      [] game = "Fallout4" -> TagF4SE
      [] game = "Fallout3" -> TagFOSE
      [] game = "FalloutNV" -> TagNVSE
      [] OTHER -> tag

\* _xSEChunk._espm_chunk_type after get_cosave_type(game): only the two newer
\* games assign it.
EspmAfter(game, espm) ==
    IF game \in {"Skyrim Special Edition", "Fallout4"} THEN {SDOM, DOML} ELSE espm

\* _xse_signature and _pluggy_signature of a cosave class; NoSignature is
\* Python's None, which equals no signature read from a file.
NoSignature == -1
XseSignature == 5120
PluggySignature == 9008
XseSignatureOf(cls) == IF cls = "SkseCosave" THEN 0 ELSE XseSignature
PluggySignatureOf(cls) == IF cls = "ObseCosave" THEN PluggySignature ELSE NoSignature

-----------------------------------------------------------------------------
(* Exceptions.                                                             *)

NoErr == [type |-> "none", msg |-> "", expected |-> <<>>, actual |-> <<>>]
StructError == [type |-> "struct.error", msg |-> "", expected |-> <<>>, actual |-> <<>>]
IOError == [type |-> "IOError", msg |-> "", expected |-> <<>>, actual |-> <<>>]
FileError(msg) == [type |-> "FileError", msg |-> msg, expected |-> <<>>, actual |-> <<>>]
TagError(actual, expected) ==
    [type |-> "FileError", msg |-> "Header tag wrong", expected |-> expected,
     actual |-> actual]

-----------------------------------------------------------------------------
(* Headers.                                                                *)

NoHeader == [formatVersion |-> -1, obseVersion |-> -1, obseMinorVersion |-> -1,
             oblivionVersion |-> -1, numPlugins |-> -1]

\* A constructor that reads the tag and does not compare it.
AHeaderInitNoCompare(b, tag) ==
    IF Len(Read(b, 0, Len(tag))) < Len(tag) THEN [err |-> StructError, pos |-> Len(b)]
    ELSE [err |-> NoErr, pos |-> Len(tag)]

\* _AHeader.__init__: read len(savefile_tag) bytes and compare them.  A result
\* is [err, pos]: the exception raised (or NoErr) and the stream's offset.
AHeaderInit(b, tag) ==
    LET actual == Read(b, 0, Len(tag)) IN
    IF Len(actual) < Len(tag) THEN [err |-> StructError, pos |-> Len(b)]
    ELSE IF actual # tag THEN [err |-> TagError(actual, tag), pos |-> Len(tag)]
    ELSE [err |-> NoErr, pos |-> Len(tag)]

\* _xSEHeader.__init__: the tag check, then four version fields and numPlugins.
xSEHeaderInit(b, tag) ==
    LET base == AHeaderInit(b, tag)
        n == Len(tag)
    IN  IF base.err # NoErr THEN [err |-> base.err, pos |-> base.pos, hdr |-> NoHeader]
        ELSE IF Len(b) < n + 16
             THEN [err |-> StructError, pos |-> Len(b), hdr |-> NoHeader]
        ELSE [err |-> NoErr, pos |-> n + 16,
              hdr |-> [formatVersion |-> UnpU32(Read(b, n, 4)),
                       obseVersion |-> UnpU16(Read(b, n + 4, 2)),
                       obseMinorVersion |-> UnpU16(Read(b, n + 6, 2)),
                       oblivionVersion |-> UnpU32(Read(b, n + 8, 4)),
                       numPlugins |-> UnpU32(Read(b, n + 12, 4))]]

\* _xSEHeader.write_header: the tag and the four version fields (numPlugins
\* is not written here).
xSEWriteHeader(tag, hdr) ==
    tag \o PackU32(hdr.formatVersion) \o PackU16(hdr.obseVersion)
        \o PackU16(hdr.obseMinorVersion) \o PackU32(hdr.oblivionVersion)

\* The newest version _PluggyHeader accepts (0x0105000).
PluggyMaxVersion == 1069056

\* _PluggyHeader.__init__: the tag check, then a version that must not exceed
\* PluggyMaxVersion.
PluggyHeaderInit(b) ==
    LET base == AHeaderInit(b, TagPluggySave)
        n == Len(TagPluggySave)
    IN  IF base.err # NoErr THEN base
        ELSE IF Len(b) < n + 4 THEN [err |-> StructError, pos |-> Len(b)]
        ELSE IF UnpU32(Read(b, n, 4)) > PluggyMaxVersion
             THEN [err |-> FileError("Version too new"), pos |-> n + 4]
        ELSE [err |-> NoErr, pos |-> n + 4]

\* _PluggyHeader.write_header: the tag, then the constant 0x0105000.
PluggyWriteHeader == TagPluggySave \o PackU32(PluggyMaxVersion)

-----------------------------------------------------------------------------
(* Chunks and plugin chunks.                                               *)

\* _AChunk.__init__ for a chunk of class cls, at offset p: type, version,
\* length, then read(length), which returns fewer bytes at the end of the
\* stream.
AChunkInit(b, p, cls) ==
    IF Len(b) < p + 12
    THEN [err |-> StructError, pos |-> Len(b), chunk |-> <<>>]
    ELSE LET length == UnpU32(Read(b, p + 8, 4))
             data == Read(b, p + 12, length)
         IN  [err |-> NoErr, pos |-> p + 12 + Len(data),
              chunk |-> [cls |-> cls,
                         chunkType |-> Read(b, p, 4),
                         chunkVersion |-> UnpU32(Read(b, p + 4, 4)),
                         chunkLength |-> length,
                         chunkData |-> data]]

\* for x in xrange(n): chunks.append(chunk_type(ins)); the first exception
\* ends the loop.
RECURSIVE ReadChunks(_, _, _, _)
ReadChunks(b, p, n, cls) ==
    LET Cons(c, rest) ==
            [err |-> rest.err, pos |-> rest.pos, chunks |-> <<c.chunk>> \o rest.chunks]
        After(c) ==
            IF c.err # NoErr THEN [err |-> c.err, pos |-> c.pos, chunks |-> <<>>]
            ELSE Cons(c, ReadChunks(b, c.pos, n - 1, cls))
    IN  IF n = 0 THEN [err |-> NoErr, pos |-> p, chunks |-> <<>>]
        ELSE After(AChunkInit(b, p, cls))

\* A choice that knows Pluggy's signature in every dialect.
GetPluginChunkTypeAnyDialect(plugin_signature, xse_signature, pluggy_signature) ==
    IF plugin_signature = xse_signature THEN "_xSEChunk"
    ELSE IF plugin_signature = PluggySignature THEN "_PluggyChunk"
    ELSE "_AChunk"

\* _PluginChunk._get_plugin_chunk_type
GetPluginChunkType(plugin_signature, xse_signature, pluggy_signature) ==
    IF plugin_signature = xse_signature THEN "_xSEChunk"
    ELSE IF plugin_signature = pluggy_signature THEN "_PluggyChunk"
    ELSE "_AChunk"

\* _PluginChunk.__init__ at offset p.
PluginChunkInit(b, p, xse_signature, pluggy_signature) ==
    IF Len(b) < p + 12
    THEN [err |-> StructError, pos |-> Len(b), group |-> <<>>]
    ELSE LET sig == UnpU32(Read(b, p, 4))
             num == UnpU32(Read(b, p + 4, 4))
             size == UnpU32(Read(b, p + 8, 4))
             Group(cs) ==
                 [err |-> cs.err, pos |-> cs.pos,
                  group |-> [plugin_signature |-> sig,
                             num_plugin_chunks |-> num,
                             plugin_data_size |-> size,
                             plugin_chunks |-> cs.chunks]]
         IN  Group(ReadChunks(b, p + 12, num,
                              GetPluginChunkType(sig, xse_signature, pluggy_signature)))

-----------------------------------------------------------------------------
(* The container's constructor.                                            *)

\* ACoSaveFile.num_plugins: the property returns 0 and no subclass overrides
\* it.
NumPlugins(hdr) == 0

\* ACoSaveFile.__init__ of an xSECoSave: the header, then num_plugins items of
\* chunk_type (_xSEChunk).
xSECoSaveInit(b, tag) ==
    LET Result(h, cs) ==
            [err |-> cs.err, pos |-> cs.pos, hdr |-> h.hdr, plugin_chunks |-> cs.chunks]
        After(h) ==
            IF h.err # NoErr
            THEN [err |-> h.err, pos |-> h.pos, hdr |-> NoHeader, plugin_chunks |-> <<>>]
            ELSE Result(h, ReadChunks(b, h.pos, NumPlugins(h.hdr), "_xSEChunk"))
    IN  After(xSEHeaderInit(b, tag))

-----------------------------------------------------------------------------
(* Renaming the masters.                                                   *)

\* The loop of _xSEChunk.chunk_map_master from offset p of the payload: while
\* ins.tell() < len(chunkData), read a str16, look it up, write it back with
\* its new length.  unpack_str16 raises when the two length bytes are not
\* there and returns a short string when the name's bytes are not.
RECURSIVE xSERewriteNames(_, _, _)
xSERewriteNames(data, p, m) ==
    IF p >= Len(data) THEN [err |-> NoErr, out |-> <<>>]
    ELSE IF Len(data) < p + 2 THEN [err |-> StructError, out |-> <<>>]
    ELSE LET Emit(modname_str, rest) ==
                 [err |-> rest.err,
                  out |-> PackU16(Len(modname_str)) \o modname_str \o rest.out]
             Name(raw) ==
                 Emit(Encode(DictGet(m, GPath(raw))),
                      xSERewriteNames(data, p + 2 + Len(raw), m))
         IN  Name(Read(data, p + 2, UnpU16(Read(data, p, 2))))

\* A rewrite that copies the payload.
xSERewriteCopy(data, m) == [err |-> NoErr, out |-> data]

\* The new payload of an espm chunk: the count byte as it was, then the names.
xSERewrite(data, m) ==
    IF Len(data) < 1 THEN [err |-> StructError, out |-> <<>>]
    ELSE LET Payload(names) == [err |-> names.err, out |-> PackU8(data[1]) \o names.out]
         IN  Payload(xSERewriteNames(data, 1, m))

\* A rewrite that leaves chunkLength as it was read.
RewrittenOldLength(chunk, r) ==
    IF r.err # NoErr THEN [err |-> r.err, chunk |-> chunk, delta |-> 0]
    ELSE [err |-> NoErr,
          chunk |-> [chunk EXCEPT !.chunkData = r.out],
          delta |-> Len(r.out) - chunk.chunkLength]

\* The end of both chunk_map_master methods: chunkData is the new payload,
\* chunkLength its length, and the difference to the old chunkLength is what
\* is added to the plugin chunk's plugin_data_size.  Nothing is assigned when
\* the loop raised.
Rewritten(chunk, r) ==
    IF r.err # NoErr THEN [err |-> r.err, chunk |-> chunk, delta |-> 0]
    ELSE [err |-> NoErr,
          chunk |-> [chunk EXCEPT !.chunkData = r.out, !.chunkLength = Len(r.out)],
          delta |-> Len(r.out) - chunk.chunkLength]

\* A chunk_map_master without the test of the chunk's type.
xSEChunkMapMasterAnyType(chunk, m, espm) ==
    [Rewritten(chunk, xSERewrite(chunk.chunkData, m)) EXCEPT !.err = NoErr]

\* _xSEChunk.chunk_map_master: [err, chunk, delta], delta being what it adds to
\* the plugin chunk's plugin_data_size.
xSEChunkMapMaster(chunk, m, espm) ==
    IF chunk.chunkType \notin espm THEN [err |-> NoErr, chunk |-> chunk, delta |-> 0]
    ELSE Rewritten(chunk, xSERewrite(chunk.chunkData, m))

\* The loop of _PluggyChunk.chunk_map_master: espId, modId, modNameLen, name;
\* the length written is that of the path's text and the name written is its
\* case-folded text.
RECURSIVE PluggyRewrite(_, _, _)
PluggyRewrite(data, p, m) ==
    IF p >= Len(data) THEN [err |-> NoErr, out |-> <<>>]
    ELSE IF Len(data) < p + 6 THEN [err |-> StructError, out |-> <<>>]
    ELSE LET Emit(modName, rest) ==
                 [err |-> rest.err,
                  out |-> PackU8(data[p + 1]) \o PackU8(data[p + 2])
                            \o PackU32(Len(modName)) \o Encode(Lower(modName))
                            \o rest.out]
             Name(raw) ==
                 Emit(DictGet(m, GPath(raw)), PluggyRewrite(data, p + 6 + Len(raw), m))
         IN  Name(Read(data, p + 6, UnpU32(Read(data, p + 2, 4))))

\* A rename that leaves the chunks of another version than 1 alone.
PluggyChunkMapMasterVersionOne(chunk, m) ==
    IF UnpU32(chunk.chunkType) # 1 \/ chunk.chunkVersion # 1
    THEN [err |-> NoErr, chunk |-> chunk, delta |-> 0]
    ELSE Rewritten(chunk, PluggyRewrite(chunk.chunkData, 0, m))

\* _PluggyChunk.chunk_map_master
PluggyChunkMapMaster(chunk, m) ==
    IF UnpU32(chunk.chunkType) # 1 THEN [err |-> NoErr, chunk |-> chunk, delta |-> 0]
    ELSE Rewritten(chunk, PluggyRewrite(chunk.chunkData, 0, m))

\* chunk.chunk_map_master, dispatched on the chunk's class; _AChunk's does
\* nothing.
ChunkMapMaster(chunk, m, espm) ==
    CASE chunk.cls = "_xSEChunk" -> xSEChunkMapMaster(chunk, m, espm)
      [] chunk.cls = "_PluggyChunk" -> PluggyChunkMapMaster(chunk, m)
      [] OTHER -> [err |-> NoErr, chunk |-> chunk, delta |-> 0]

\* The inner loop of map_masters over one plugin chunk's chunks: the chunks
\* before the one that raises are rewritten, the others are as they were.
RECURSIVE MapChunks(_, _, _)
MapChunks(chunks, m, espm) ==
    LET Cons(c, rest) ==
            [err |-> rest.err, chunks |-> <<c.chunk>> \o rest.chunks,
             delta |-> c.delta + rest.delta]
        After(c) ==
            IF c.err # NoErr THEN [err |-> c.err, chunks |-> chunks, delta |-> 0]
            ELSE Cons(c, MapChunks(Tail(chunks), m, espm))
    IN  IF chunks = <<>> THEN [err |-> NoErr, chunks |-> <<>>, delta |-> 0]
        ELSE After(ChunkMapMaster(Head(chunks), m, espm))

\* An inner loop that does not update plugin_data_size.
MapPluginChunkNoDelta(g, m, espm) ==
    LET Group(r) == [err |-> r.err, group |-> [g EXCEPT !.plugin_chunks = r.chunks]]
    IN  Group(MapChunks(g.plugin_chunks, m, espm))

\* One plugin chunk after the inner loop.
MapPluginChunk(g, m, espm) ==
    LET Group(r) ==
            [err |-> r.err,
             group |-> [g EXCEPT !.plugin_chunks = r.chunks,
                                 !.plugin_data_size = g.plugin_data_size + r.delta]]
    IN  Group(MapChunks(g.plugin_chunks, m, espm))

\* xSECoSave.map_masters
RECURSIVE MapMastersOf(_, _, _)
MapMastersOf(groups, m, espm) ==
    LET Cons(g, rest) == [err |-> rest.err, groups |-> <<g.group>> \o rest.groups]
        After(g) ==
            IF g.err # NoErr THEN [err |-> g.err, groups |-> <<g.group>> \o Tail(groups)]
            ELSE Cons(g, MapMastersOf(Tail(groups), m, espm))
    IN  IF groups = <<>> THEN [err |-> NoErr, groups |-> <<>>]
        ELSE After(MapPluginChunk(Head(groups), m, espm))

-----------------------------------------------------------------------------
(* Writing the container.                                                  *)

WriteChunk(c) ==
    c.chunkType \o PackU32(c.chunkVersion) \o PackU32(c.chunkLength) \o c.chunkData

RECURSIVE WriteChunks(_)
WriteChunks(chunks) ==
    IF chunks = <<>> THEN <<>> ELSE WriteChunk(Head(chunks)) \o WriteChunks(Tail(chunks))

WritePluginChunk(g) ==
    PackU32(g.plugin_signature) \o PackU32(g.num_plugin_chunks)
        \o PackU32(g.plugin_data_size) \o WriteChunks(g.plugin_chunks)

RECURSIVE WritePluginChunks(_)
WritePluginChunks(groups) ==
    IF groups = <<>> THEN <<>>
    ELSE WritePluginChunk(Head(groups)) \o WritePluginChunks(Tail(groups))

\* The buffer write_cosave builds: the header, the number of plugin chunks,
\* the plugin chunks.
CosaveText(tag, hdr, groups) ==
    xSEWriteHeader(tag, hdr) \o PackU32(Len(groups)) \o WritePluginChunks(groups)

\* _pack raises struct.error for a value its format cannot hold; the only
\* field that is computed rather than read is plugin_data_size.
CosavePackable(groups) ==
    \A i \in 1..Len(groups) : FitsU32(groups[i].plugin_data_size)

-----------------------------------------------------------------------------
(* CRC32 (binascii.crc32, which returns a signed 32-bit value).  A 32-bit  *)
(* word is kept as its two 16-bit halves <<hi, lo>>.                       *)

RECURSIVE Xor(_, _)
Xor(a, b) ==
    IF a = 0 THEN b
    ELSE IF b = 0 THEN a
    ELSE ((a + b) % 2) + 2 * Xor(a \div 2, b \div 2)

XorW(x, y) == <<Xor(x[1], y[1]), Xor(x[2], y[2])>>

\* The reflected polynomial 0xEDB88320.
CrcPoly == <<60856, 33568>>

\* One bit of the register: shift right, and xor the polynomial in when the
\* bit shifted out is 1.
CrcBit(c) ==
    LET half == <<c[1] \div 2, (c[2] \div 2) + 32768 * (c[1] % 2)>> IN
    IF c[2] % 2 = 1 THEN XorW(CrcPoly, half) ELSE half

\* k bits.  (Each intermediate register is bound as the element of a
\* singleton set, so that it is computed once.)
RECURSIVE CrcShift(_, _)
CrcShift(c, k) ==
    IF k = 0 THEN c
    ELSE CHOOSE r \in {CrcShift(d, k - 1) : d \in {CrcBit(c)}} : TRUE

CrcTable == [i \in 0..255 |-> CrcShift(<<0, i>>, 8)]

\* One byte: a table step.
CrcStep(crc, byte) ==
    XorW(CrcTable[Xor(crc[2] % 256, byte)],
         <<crc[1] \div 256, (crc[2] \div 256) + 256 * (crc[1] % 256)>>)

\* The register after the bytes lo..hi; the range is halved so that the
\* evaluation stays shallow.
RECURSIVE CrcUpdate(_, _, _, _)
CrcUpdate(crc, bytes, lo, hi) ==
    IF lo > hi THEN crc
    ELSE IF lo = hi THEN CrcStep(crc, bytes[lo])
    ELSE LET mid == (lo + hi) \div 2 IN
         CHOOSE r \in {CrcUpdate(left, bytes, mid + 1, hi) :
                          left \in {CrcUpdate(crc, bytes, lo, mid)}} : TRUE

ToSigned32(x) == (IF x[1] >= 32768 THEN x[1] - 65536 ELSE x[1]) * 65536 + x[2]

Crc32(bytes) ==
    CHOOSE r \in {ToSigned32(XorW(CrcUpdate(<<65535, 65535>>, b, 1, Len(b)), <<65535, 65535>>)) :
                     b \in {bytes}} : TRUE

\* struct_unpack('=i') and struct_pack('i')
UnpI32(s) == ToSigned32(<<s[3] + 256 * s[4], s[1] + 256 * s[2]>>)
PackI32(n) == <<n % 256, (n \div 256) % 256, (n \div 65536) % 256, (n \div 16777216) % 256>>

-----
(* The Pluggy file.                                                        *)

\* PluggyFile.__init__ leaves these fields.
PluggyNew == [version |-> -1, plugins |-> <<>>, hasPlugins |-> FALSE,
              other |-> <<>>, hasOther |-> FALSE, valid |-> FALSE]

\* The oldest version PluggyFile.load accepts (0x01020000).
PluggyMinVersion == 16908288

\* A test that rejects the oldest version too.
PluggyVersionRejectedAtMin(version) == version <= PluggyMinVersion

\* "if self.version < 0x01020000: raise"
PluggyVersionRejected(version) == version < PluggyMinVersion

\* for x in range(count): read espid, index, modLen and the name; the entries
\* read before an exception stay in the list.
RECURSIVE PluggyReadPlugins(_, _, _)
PluggyReadPlugins(buff, p, n) ==
    IF n = 0 THEN [err |-> NoErr, pos |-> p, plugins |-> <<>>]
    ELSE IF Len(buff) < p + 6 THEN [err |-> StructError, pos |-> Len(buff), plugins |-> <<>>]
    ELSE LET Cons(entry, rest) ==
                 [err |-> rest.err, pos |-> rest.pos, plugins |-> <<entry>> \o rest.plugins]
             Entry(raw) ==
                 Cons(<<buff[p + 1], buff[p + 2], GPath(raw)>>,
                        PluggyReadPlugins(buff, p + 6 + Len(raw), n - 1))
         IN  Entry(Read(buff, p + 6, UnpU32(Read(buff, p + 2, 4))))

\* PluggyFile.load after the checksum check, on buff (the file without its
\* last four bytes): [err, obj], obj being the object's fields when load
\* returns or raises.  version is assigned before it is checked, _plugins
\* before the marker is read and entry by entry, other before the deprint
\* that unpacks its last four bytes.
PluggyLoadBody(buff, obj) ==
    LET n == Len(TagPluggySave)
        Done(o, ps) ==
            IF ps.err # NoErr THEN [err |-> ps.err, obj |-> [o EXCEPT !.plugins = ps.plugins]]
            ELSE IF Len(buff) - ps.pos < 4
                 THEN [err |-> StructError,
                       obj |-> [o EXCEPT !.plugins = ps.plugins,
                                         !.other = SubSeq(buff, ps.pos + 1, Len(buff)),
                                         !.hasOther = TRUE]]
            ELSE [err |-> NoErr,
                  obj |-> [o EXCEPT !.plugins = ps.plugins,
                                    !.other = SubSeq(buff, ps.pos + 1, Len(buff)),
                                    !.hasOther = TRUE,
                                    !.valid = TRUE]]
        Plugins(o) ==
            IF Len(buff) < n + 5 THEN [err |-> StructError, obj |-> o]
            ELSE IF buff[n + 5] # 0
                 THEN [err |-> FileError("Expected plugins record"), obj |-> o]
            ELSE IF Len(buff) < n + 9 THEN [err |-> StructError, obj |-> o]
            ELSE Done(o, PluggyReadPlugins(buff, n + 9, UnpU32(Read(buff, n + 5, 4))))
        Version(o) ==
            IF PluggyVersionRejected(o.version)
            THEN [err |-> FileError("Unsupported file version"), obj |-> o]
            ELSE Plugins([o EXCEPT !.plugins = <<>>, !.hasPlugins = TRUE])
    IN  IF Read(buff, 0, n) # TagPluggySave
        THEN [err |-> FileError("File tag != PluggySave"), obj |-> obj]
        ELSE IF Len(buff) < n + 4 THEN [err |-> StructError, obj |-> obj]
        ELSE Version([obj EXCEPT !.version = UnpU32(Read(buff, n, 4))])

\* A load that reads the body without comparing the checksum.
PluggyLoadOfNoChecksum(b, obj) ==
    IF Len(b) < 4 THEN [err |-> StructError, obj |-> obj]
    ELSE PluggyLoadBody(SubSeq(b, 1, Len(b) - 4), obj)

\* PluggyFile.load on the bytes b of the file: the last four bytes are
\* compared with the CRC32 of the bytes before them, then the body is read.
PluggyLoadOf(b, obj) ==
    IF Len(b) < 4 THEN [err |-> StructError, obj |-> obj]
    ELSE IF UnpI32(SubSeq(b, Len(b) - 3, Len(b))) # Crc32(SubSeq(b, 1, Len(b) - 4))
         THEN [err |-> FileError("CRC32 file check failed"), obj |-> obj]
    ELSE PluggyLoadBody(SubSeq(b, 1, Len(b) - 4), obj)

\* The plugin entries as save writes them: the name is the encoded case-folded
\* text, preceded by its length.
RECURSIVE PluggyWritePlugins(_)
PluggyWritePlugins(plugins) ==
    IF plugins = <<>> THEN <<>>
    ELSE LET Entry(e, modName) ==
                 PackU8(e[1]) \o PackU8(e[2]) \o PackU32(Len(modName)) \o modName
         IN  Entry(Head(plugins), Encode(Lower(Head(plugins)[3])))
                 \o PluggyWritePlugins(Tail(plugins))

\* A buffer without what load kept in other.
PluggyTextNoOther(obj) ==
    TagPluggySave \o PackU32(obj.version) \o PackU8(0)
        \o PackU32(Len(obj.plugins)) \o PluggyWritePlugins(obj.plugins)

\* A buffer with the end control written after other.
PluggyTextControlAppended(obj) ==
    LET EndControl(body) == body \o PackU32(Len(body))
    IN  EndControl(TagPluggySave \o PackU32(obj.version) \o PackU8(0)
                       \o PackU32(Len(obj.plugins)) \o PluggyWritePlugins(obj.plugins)
                       \o obj.other)

\* The buffer PluggyFile.save builds: tag, version, marker, count, entries,
\* other, and then the end control written over its last four bytes.
PluggyText(obj) ==
    LET EndControl(body) == SubSeq(body, 1, Len(body) - 4) \o PackU32(Len(body) - 4)
    IN  EndControl(TagPluggySave \o PackU32(obj.version) \o PackU8(0)
                       \o PackU32(Len(obj.plugins)) \o PluggyWritePlugins(obj.plugins)
                       \o obj.other)

\* PluggyFile.mapMasters on a valid object.
\* A mapMasters that keeps the entries it renames and drops the others.
PluggyMapMastersRenamedOnly(plugins, m) ==
    SelectSeq([i \in 1..Len(plugins) |->
                  <<plugins[i][1], plugins[i][2], DictGet(m, plugins[i][3])>>],
              LAMBDA e : \E i \in 1..Len(plugins) :
                             e[1] = plugins[i][1] /\ e[3] # plugins[i][3])

PluggyMapMasters(plugins, m) ==
    [i \in 1..Len(plugins) |-> <<plugins[i][1], plugins[i][2], DictGet(m, plugins[i][3])>>]

-----------------------------------------------------------------------------
(* The files a run may find on disk.                                       *)

MkChunk(type, version, data) == type \o PackU32(version) \o PackU32(Len(data)) \o data

\* An xSE master list: count, then u16-prefixed names.
RECURSIVE MkStr16s(_)
MkStr16s(names) ==
    IF names = <<>> THEN <<>>
    ELSE PackU16(Len(Head(names))) \o Encode(Head(names)) \o MkStr16s(Tail(names))
MkMasters(names) == PackU8(Len(names)) \o MkStr16s(names)

\* Pluggy entries: espId, modId, u32-prefixed name.
RECURSIVE MkEntries(_)
MkEntries(es) ==
    IF es = <<>> THEN <<>>
    ELSE LET e == Head(es) IN
         PackU8(e[1]) \o PackU8(e[2]) \o PackU32(Len(e[3])) \o Encode(e[3])
             \o MkEntries(Tail(es))

MkGroup(sig, chunks) ==
    LET Sized(data) == PackU32(sig) \o PackU32(Len(chunks)) \o PackU32(Len(data)) \o data
    IN  Sized(Concat(chunks))

\* A plugin chunk that declares a data size of its own choosing.
MkGroupSized(sig, size, chunks) ==
    PackU32(sig) \o PackU32(Len(chunks)) \o PackU32(size) \o Concat(chunks)

\* An 'RVRA' chunk of version 1 owned by the save's second master: a
\* StringMap with one reference, to the save file, and one element, key "q",
\* of data type 2.
ArrayOfSecondMaster ==
    MkChunk(RVRA, 1, <<1>> \o PackU32(1) \o <<3, 0>> \o PackU32(1) \o <<255>>
                         \o PackU32(1) \o PackU16(1) \o <<113>> \o <<2>> \o PackU32(5))

\* 'RVRA' chunks of version 0 owned by the save file, key type 0: one whose
\* only element has data type 0; one with three elements, of data types 2,
\* 0 and 5.
ArrayOfTypeZero ==
    MkChunk(RVRA, 0, <<255>> \o PackU32(2) \o <<0, 0>> \o PackU32(1) \o <<0>>)
ArrayOfTypeFive ==
    MkChunk(RVRA, 0, <<255>> \o PackU32(3) \o <<0, 0>> \o PackU32(3)
                         \o <<2>> \o PackU32(5) \o <<0>> \o <<5>>)

\* An 'RVTS' chunk of the save's second master whose payload is also a list
\* of two masters: string 0x62410002, of length 1, "q".
StringOfSecondMaster == MkChunk(RVTS, 0, MkMasters(<<tAb, tq>>))

\* Plugin chunks: one of signature 0x1400, one of signature 0, one of
\* Pluggy's signature 0x2330, one of a signature no dialect reserves; each
\* holds chunks that list masters, and chunks that do not: a string and an
\* array, two arrays, a Pluggy string.  The one of signature 0 declares the
\* sum of (8 + length) for its data size.  Then one of Pluggy's with a
\* string of mod 0, after it a list of ESPs in a chunk of version 2, and a
\* name chunk of two bytes.
GroupPool ==
    << MkGroup(XseSignature,
               << MkChunk(SDOM, 1, MkMasters(<<tAb, tXyz>>)),
                  StringOfSecondMaster,
                  MkChunk(DOML, 1, MkMasters(<<tab>>)),
                  ArrayOfTypeFive >>),
       MkGroupSized(0, 32 + Len(MkMasters(<<tq, tAb>>)) + Len(MkMasters(<<tXyz>>))
                        + (Len(ArrayOfSecondMaster) - 12) + (Len(ArrayOfTypeZero) - 12),
               << MkChunk(SDOM, 1, MkMasters(<<tq, tAb>>)),
                  MkChunk(DOML, 2, MkMasters(<<tXyz>>)),
                  ArrayOfSecondMaster,
                  ArrayOfTypeZero >>),
       MkGroup(PluggySignature,
               << MkChunk(PackU32(1), 1, MkEntries(<< <<1, 0, tAb>>, <<2, 1, tXyz>> >>)),
                  MkChunk(PackU32(2), 1, MkEntries(<< <<3, 2, tq>> >>)) >>),
       MkGroup(153,
               << MkChunk(SDOM, 1, MkMasters(<<tAb, tq>>)) >>),
       MkGroup(PluggySignature,
               << MkChunk(PackU32(2), 1, PackU32(7) \o <<0, 0, 113>>),
                  MkChunk(PackU32(1), 2, MkEntries(<< <<3, 0, tAb>> >>)),
                  MkChunk(PackU32(4), 1, <<7, 0>>) >>) >>

\* The plugin chunks of a file: up to MaxGroups of the pool, each at most
\* once, in any order.
GroupSeqs ==
    {gs \in UNION {[1..n -> DOMAIN GroupPool] : n \in 0..MaxGroups} :
        \A i, j \in DOMAIN gs : gs[i] = gs[j] => i = j}
GroupBytes(gs) == Concat([i \in 1..Len(gs) |-> GroupPool[gs[i]]])

MkHeader(tag, numPlugins) ==
    tag \o PackU32(1) \o PackU16(21) \o PackU16(3) \o PackU32(16909216)
        \o PackU32(numPlugins)

MkCosave(tag, gs) == MkHeader(tag, Len(gs)) \o GroupBytes(gs)

TagGarbage == <<88, 66, 83, 69>>

\* Valid cosaves of two dialects, files whose tag is garbage, and two files
\* that end inside the header.
XseFiles ==
    {MkCosave(tag, gs) : tag \in {TagOBSE, TagF4SE, TagGarbage}, gs \in GroupSeqs}
        \cup {<<79, 66>>, TagOBSE \o <<1, 0, 0>>}

\* crcOff is added to the first byte of the right checksum.
MkPluggy(tag, version, marker, entries, trailer, crcOff) ==
    LET Sum(body) == body \o [PackI32(Crc32(body)) EXCEPT ![1] = (@ + crcOff) % 256]
    IN  Sum(tag \o PackU32(version) \o PackU8(marker) \o PackU32(Len(entries))
                \o MkEntries(entries) \o trailer)

\* A trailer as Pluggy writes it: bytes of its own, then the end control, the
\* offset at which the end control starts.
PluggyTrailer(entries, pre) ==
    pre \o PackU32(Len(TagPluggySave) + 9 + Len(MkEntries(entries)) + Len(pre))

TagPluggyBad == <<80, 108, 117, 103, 103, 121, 83, 97, 118, 102>>

\* Pluggy files: versions at the constructor's ceiling and at load's floor,
\* with a right or a wrong checksum, a wrong tag, a wrong marker, a short
\* trailer, one entry or two, a trailer that ends in its end control.
PluggyFiles ==
    LET es == << <<1, 0, tAb>> >>
        es2 == << <<1, 0, tAb>>, <<2, 1, tq>> >>
        tr == <<9, 8, 7, 6, 5>>
    IN  { MkPluggy(TagPluggySave, PluggyMaxVersion, 0, es, tr, 0),
          MkPluggy(TagPluggySave, PluggyMaxVersion, 0, es, tr, 1),
          MkPluggy(TagPluggySave, PluggyMaxVersion - 4096, 1, es, tr, 0),
          MkPluggy(TagPluggySave, PluggyMinVersion, 0, es, tr, 0),
          MkPluggy(TagPluggySave, PluggyMinVersion, 0, es2, PluggyTrailer(es2, <<9, 8, 7>>), 0),
          MkPluggy(TagPluggySave, PluggyMinVersion, 0, es, tr, 1),
          MkPluggy(TagPluggySave, PluggyMinVersion, 1, es, tr, 0),
          MkPluggy(TagPluggySave, PluggyMinVersion, 0, es, <<9, 8>>, 0),
          MkPluggy(TagPluggyBad, PluggyMinVersion, 0, es, tr, 0),
          MkPluggy(TagPluggyBad, PluggyMinVersion, 0, es, tr, 1) }

Absent == [exists |-> FALSE, bytes |-> <<>>, mtime |-> 0]
FileOf(bytes, mtime) == [exists |-> TRUE, bytes |-> bytes, mtime |-> mtime]

NoWrite == [op |-> "none", target |-> "none", parts |-> <<>>, text |-> <<>>,
            mtime |-> 0, orig |-> Absent, replaced |-> FALSE]

-----------------------------------------------------------------------------
(* logStatObse.  Of what it logs, the model keeps the lines that are looked *)
(* up in save_masters or in the scratch map espMap; every other line is a  *)
(* format of fields already read.                                          *)

IndexError == [type |-> "IndexError", msg |-> "", expected |-> <<>>, actual |-> <<>>]
UnboundLocalError ==
    [type |-> "UnboundLocalError", msg |-> "", expected |-> <<>>, actual |-> <<>>]

\* u'ERROR'
ErrorText == <<69, 82, 82, 79, 82>>

\* '%s' of a byte: its decimal digits.
RECURSIVE Dec(_)
Dec(n) == IF n < 10 THEN <<48 + n>> ELSE Dec(n \div 10) \o <<48 + (n % 10)>>

\* espMap = {}
EmptyMap == [k \in {} |-> <<>>]

\* espMap[modId] = value
MapSet(espMap, modId, value) ==
    [k \in DOMAIN espMap \cup {modId} |-> IF k = modId THEN value ELSE espMap[k]]

\* A lookup that finds nothing.
MapLookupNothing(espMap, modId) == ErrorText

\* espMap[modId] if modId in espMap else u'ERROR'
MapLookup(espMap, modId) ==
    IF modId \in DOMAIN espMap THEN espMap[modId] ELSE ErrorText

\* What a log_chunk call leaves: the exception it raised, the scratch map,
\* the looked-up lines it logged.
Logged(espMap, out) == [err |-> NoErr, espMap |-> espMap, out |-> out]
LogRaised(e, espMap, out) == [err |-> e, espMap |-> espMap, out |-> out]

\* The "Refs:" loop of an 'RVRA' chunk: [err, pos, out].
RECURSIVE LogRefs(_, _, _, _)
LogRefs(data, p, n, save_masters) ==
    LET Cons(name, rest) == [err |-> rest.err, pos |-> rest.pos, out |-> name \o rest.out]
    IN  IF n = 0 THEN [err |-> NoErr, pos |-> p, out |-> <<>>]
        ELSE IF Len(data) < p + 1 THEN [err |-> StructError, pos |-> p, out |-> <<>>]
        ELSE IF data[p + 1] = 255
             THEN LogRefs(data, p + 1, n - 1, save_masters)
        ELSE IF data[p + 1] >= Len(save_masters)
             THEN [err |-> IndexError, pos |-> p + 1, out |-> <<>>]
        ELSE Cons(<<save_masters[data[p + 1] + 1]>>,
                  LogRefs(data, p + 1, n - 1, save_masters))

\* The elements loop of an 'RVRA' chunk; bound tells whether an earlier
\* element has assigned dataStr.  The exception raised, or NoErr.
RECURSIVE LogElements(_, _, _, _, _)
LogElements(data, p, n, keyType, bound) ==
    LET Line(dataType, q) ==
            IF dataType > 4 THEN IndexError
            ELSE IF dataType = 0 /\ ~bound THEN UnboundLocalError
            ELSE LogElements(data, q, n - 1, keyType, bound \/ dataType # 0)
        Value(dataType, q) ==
            IF dataType \in {1, 2, 3, 4}
            THEN LET size == CASE dataType = 1 -> 8
                               [] dataType = 3 -> 2
                               [] OTHER -> 4
                 IN  IF Len(data) < q + size THEN StructError
                     ELSE IF dataType = 3
                          THEN Line(dataType,
                                    Min(q + 2 + UnpU16(Read(data, q, 2)), Len(data)))
                     ELSE Line(dataType, q + size)
            ELSE Line(dataType, q)
        DataType(q) ==
            IF Len(data) < q + 1 THEN StructError
            ELSE Value(data[q + 1], q + 1)
    IN  IF n = 0 THEN NoErr
        ELSE IF keyType = 1
             THEN IF Len(data) < p + 8 THEN StructError ELSE DataType(p + 8)
        ELSE IF keyType = 3
             THEN IF Len(data) < p + 2 THEN StructError
                  ELSE DataType(Min(p + 2 + UnpU16(Read(data, p, 2)), Len(data)))
        ELSE DataType(p)

\* _xSEChunk.log_chunk
xSELogChunk(chunk, save_masters, espMap) ==
    LET data == chunk.chunkData
        Elements(p, out) ==
            IF Len(data) < p + 4 THEN LogRaised(StructError, espMap, out)
            ELSE LET Done(e) == IF e = NoErr THEN Logged(espMap, out)
                                ELSE LogRaised(e, espMap, out)
                 IN  Done(LogElements(data, p + 4, UnpU32(Read(data, p, 4)),
                                      data[6], FALSE))
        Refs(out) ==
            IF chunk.chunkVersion >= 1
            THEN IF Len(data) < 11 THEN LogRaised(StructError, espMap, out)
                 ELSE LET After(r) ==
                              IF r.err # NoErr THEN LogRaised(r.err, espMap, out \o r.out)
                              ELSE Elements(r.pos, out \o r.out)
                      IN  After(LogRefs(data, 11, UnpU32(Read(data, 7, 4)), save_masters))
            ELSE Elements(7, out)
    IN  IF chunk.chunkType = RVTS
        THEN IF Len(data) < 7 THEN LogRaised(StructError, espMap, <<>>)
             ELSE IF data[1] >= Len(save_masters) THEN LogRaised(IndexError, espMap, <<>>)
             ELSE Logged(espMap, <<save_masters[data[1] + 1]>>)
        ELSE IF chunk.chunkType = RVRA
        THEN IF Len(data) < 7 THEN LogRaised(StructError, espMap, <<>>)
             ELSE IF data[1] = 255 THEN Refs(<<>>)
             ELSE IF data[1] >= Len(save_masters) THEN LogRaised(IndexError, espMap, <<>>)
             ELSE Refs(<<save_masters[data[1] + 1]>>)
        ELSE Logged(espMap, <<>>)

\* The "Pluggy ESPs" loop: every entry sets espMap[modId], to the espId in a
\* version 2 chunk, to the name otherwise.
RECURSIVE PluggyLogEsps(_, _, _, _)
PluggyLogEsps(version, data, p, espMap) ==
    IF p >= Len(data) THEN Logged(espMap, <<>>)
    ELSE IF version = 2
         THEN IF Len(data) < p + 2 THEN LogRaised(StructError, espMap, <<>>)
              ELSE PluggyLogEsps(version, data, p + 2,
                                 MapSet(espMap, data[p + 2], Dec(data[p + 1])))
    ELSE IF Len(data) < p + 6 THEN LogRaised(StructError, espMap, <<>>)
    ELSE PluggyLogEsps(version, data,
                       Min(p + 6 + UnpU32(Read(data, p + 2, 4)), Len(data)),
                       MapSet(espMap, data[p + 2],
                              Read(data, p + 6, UnpU32(Read(data, p + 2, 4)))))

\* The elements loop of a "Pluggy Array": the exception raised, or NoErr.
RECURSIVE PluggyLogArray(_, _)
PluggyLogArray(data, p) ==
    IF p >= Len(data) THEN NoErr
    ELSE IF Len(data) < p + 5 THEN StructError
    ELSE IF data[p + 5] \in {0, 1, 2} /\ Len(data) < p + 9 THEN StructError
    ELSE PluggyLogArray(data, Min(p + 9, Len(data)))

\* _PluggyChunk.log_chunk
PluggyLogChunk(chunk, save_masters, espMap) ==
    LET data == chunk.chunkData
        chunkTypeNum == UnpU32(chunk.chunkType)
        Fixed(size, out) ==
            IF Len(data) < size THEN LogRaised(StructError, espMap, <<>>)
            ELSE Logged(espMap, out)
        ModId(size) ==
            IF Len(data) < size THEN LogRaised(StructError, espMap, <<>>)
            ELSE Logged(espMap, <<MapLookup(espMap, data[5])>>)
    IN  CASE chunkTypeNum = 1 -> PluggyLogEsps(chunk.chunkVersion, data, 0, espMap)
          [] chunkTypeNum = 2 -> ModId(6)
          [] chunkTypeNum = 3 ->
                IF Len(data) < 10 THEN LogRaised(StructError, espMap, <<>>)
                ELSE LET Done(e) ==
                             IF e = NoErr
                             THEN Logged(espMap, <<MapLookup(espMap, data[5])>>)
                             ELSE LogRaised(e, espMap, <<MapLookup(espMap, data[5])>>)
                     IN  Done(PluggyLogArray(data, 10))
          [] chunkTypeNum = 4 -> Fixed(4, <<>>)
          [] chunkTypeNum = 5 -> Fixed(8, <<>>)
          [] chunkTypeNum = 6 -> ModId(29)
          [] chunkTypeNum = 7 ->
                IF Len(data) < 41 THEN LogRaised(StructError, espMap, <<>>)
                ELSE ModId(Min(41 + UnpU32(Read(data, 37, 4)), Len(data)) + 14)
          [] OTHER -> Logged(espMap, <<>>)

\* ch.log_chunk(log, ins, save_masters, espMap) on the chunk's class;
\* _AChunk.log_chunk does nothing.
LogChunk(chunk, save_masters, espMap) ==
    IF chunk.cls = "_xSEChunk" THEN xSELogChunk(chunk, save_masters, espMap)
    ELSE IF chunk.cls = "_PluggyChunk" THEN PluggyLogChunk(chunk, save_masters, espMap)
    ELSE Logged(espMap, <<>>)

\* "for ch in plugin_ch.plugin_chunks": the chunks of one plugin chunk, with
\* the one scratch map; the first exception ends it.
RECURSIVE LogChunks(_, _, _)
LogChunks(chunks, save_masters, espMap) ==
    LET Cons(r, rest) == [err |-> rest.err, espMap |-> rest.espMap, out |-> r.out \o rest.out]
        After(r) ==
            IF r.err # NoErr THEN r
            ELSE Cons(r, LogChunks(Tail(chunks), save_masters, r.espMap))
    IN  IF chunks = <<>> THEN Logged(espMap, <<>>)
        ELSE After(LogChunk(Head(chunks), save_masters, espMap))

\* A scratch map that is the one the plugin chunk before left.
EspMapKept(last) == last

\* "espMap = {}" at the start of every plugin chunk, whatever map the plugin
\* chunk before it filled.
EspMapFor(last) == EmptyMap

\* logStatObse(log, save_masters) from "#--Plugins" on: [err, outs], the
\* looked-up lines of each plugin chunk, up to the one that raised.
RECURSIVE LogPluginChunks(_, _, _)
LogPluginChunks(groups, save_masters, last) ==
    LET Cons(r, rest) == [err |-> rest.err, outs |-> <<r.out>> \o rest.outs]
        After(r) ==
            IF r.err # NoErr THEN [err |-> r.err, outs |-> <<r.out>>]
            ELSE Cons(r, LogPluginChunks(Tail(groups), save_masters, r.espMap))
    IN  IF groups = <<>> THEN [err |-> NoErr, outs |-> <<>>]
        ELSE After(LogChunks(Head(groups).plugin_chunks, save_masters, EspMapFor(last)))

\* No logStatObse call yet.
NoLog == [called |-> FALSE, err |-> NoErr, save_masters |-> <<>>, outs |-> <<>>]

-----------------------------------------------------------------------------
(* The run of the program: select the game, construct the cosave from the  *)
(* file, rename masters, write.                                            *)

Paths == {"cosave_path", "temp", "out_path"}
DiskWith(f) == [p \in Paths |-> IF p = "cosave_path" THEN FileOf(f, 1) ELSE Absent]

InitObject ==
    /\ err = NoErr
    /\ pos = 0
    /\ cosave_header = NoHeader
    /\ plugin_chunks = <<>>
    /\ pluggy = PluggyNew
    /\ before = <<>>
    /\ renames = <<>>
    /\ mapCount = 0
    /\ loads = 0
    /\ w = NoWrite
    /\ logged = NoLog

InitClasses ==
    /\ savefile_tag = TagOVERRIDE
    /\ espm_chunk_type = {SDOM}
    /\ cosave_type = "None"
    /\ selects = 0

Init ==
    /\ InitClasses
    /\ InitObject
    /\ \/ kind = "xse" /\ pc = "select" /\ \E f \in XseFiles : disk = DiskWith(f)
       \/ kind = "pluggy" /\ pc = "new" /\ \E f \in PluggyFiles : disk = DiskWith(f)

\* get_cosave_type(game)
GetCosaveType(game) ==
    /\ kind = "xse"
    /\ pc = "select"
    /\ selects < MaxSelect
    /\ cosave_type' = CosaveTypeOf(game)
    /\ savefile_tag' = TagAfter(game, savefile_tag)
    /\ espm_chunk_type' = EspmAfter(game, espm_chunk_type)
    /\ selects' = selects + 1
    /\ UNCHANGED <<kind, logged, disk, pc, err, pos, cosave_header, plugin_chunks, pluggy,
                   before, renames, mapCount, loads, w>>

\* cosave_type(cosave_path): ACoSaveFile.__init__ of the class selected.
Load ==
    /\ kind = "xse"
    /\ pc = "select"
    /\ cosave_type # "None"
    /\ LET Constructed(r) ==
                /\ err' = r.err
                /\ pos' = r.pos
                /\ cosave_header' = r.hdr
                /\ plugin_chunks' = r.plugin_chunks
                /\ pc' = IF r.err = NoErr THEN "loaded" ELSE "failed"
       IN  Constructed(xSECoSaveInit(disk.cosave_path.bytes, savefile_tag))
    /\ UNCHANGED <<kind, logged, savefile_tag, espm_chunk_type, cosave_type, selects, disk,
                   pluggy, before, renames, mapCount, loads, w>>

\* xSECoSave.map_masters(m)
MapMasters(m) ==
    /\ kind = "xse"
    /\ pc = "loaded"
    /\ mapCount < MaxMaps
    /\ LET Mapped(r) ==
                /\ plugin_chunks' = r.groups
                /\ err' = r.err
                /\ pc' = IF r.err = NoErr THEN "loaded" ELSE "failed"
       IN  Mapped(MapMastersOf(plugin_chunks, m, espm_chunk_type))
    /\ before' = plugin_chunks
    /\ renames' = m
    /\ mapCount' = mapCount + 1
    /\ UNCHANGED <<kind, logged, savefile_tag, espm_chunk_type, cosave_type, selects, disk,
                   pos, cosave_header, pluggy, loads, w>>

\* A safe write that would write over the cosave itself.
SafeTargetInPlace == "cosave_path"

\* The path write_cosave_safe and safeSave write to: self.cosave_path.temp.
SafeTarget == "temp"

\* The time of the write itself, taken for the time to keep.
MtimeOfWrite(d) == MaxReplaced + 2

\* "mtime = self.cosave_path.mtime", the first statement of write_cosave; the
\* argument safeSave passes to save; "path.exists() and path.mtime" in a save
\* on the cosave's own path.
MtimeRead(d) == d.cosave_path.mtime

\* write_cosave(out_path), or write_cosave_safe() with safe: the mtime of the
\* cosave is read and the buffer is built; nothing is on disk yet.
WriteCosaveBegin(safe) ==
    /\ kind = "xse"
    /\ pc = "loaded"
    /\ IF disk.cosave_path.exists /\ CosavePackable(plugin_chunks)
       THEN /\ LET Buffered(text) ==
                    w' = [op |-> IF safe THEN "write_cosave_safe" ELSE "write_cosave",
                          target |-> IF safe THEN SafeTarget ELSE "out_path",
                          parts |-> <<text>>,
                          text |-> text,
                          mtime |-> MtimeRead(disk),
                          orig |-> disk.cosave_path,
                          replaced |-> FALSE]
               IN  Buffered(CosaveText(savefile_tag, cosave_header, plugin_chunks))
            /\ pc' = "buffered"
            /\ err' = NoErr
       ELSE /\ w' = [NoWrite EXCEPT !.op = IF safe THEN "write_cosave_safe" ELSE "write_cosave",
                                    !.orig = disk.cosave_path]
            /\ pc' = "failed"
            /\ err' = IF disk.cosave_path.exists THEN StructError ELSE IOError
    /\ UNCHANGED <<kind, logged, savefile_tag, espm_chunk_type, cosave_type, selects, disk,
                   pos, cosave_header, plugin_chunks, pluggy, before, renames,
                   mapCount, loads>>

\* The time at which the program writes, later than the mtime of any file it
\* reads.
Now == MaxReplaced + 2

\* out_path.open('wb'): the file is created or emptied.
WriteOpen ==
    /\ pc = "buffered"
    /\ disk' = [disk EXCEPT ![w.target] = FileOf(<<>>, Now)]
    /\ pc' = "open"
    /\ UNCHANGED <<kind, logged, savefile_tag, espm_chunk_type, cosave_type, selects, err,
                   pos, cosave_header, plugin_chunks, pluggy, before, renames,
                   mapCount, loads, w>>

\* out.write(...) of the next part of what is written.
WritePart ==
    /\ pc = "open"
    /\ w.parts # <<>>
    /\ disk' = [disk EXCEPT ![w.target].bytes = @ \o Head(w.parts)]
    /\ w' = [w EXCEPT !.parts = Tail(@)]
    /\ UNCHANGED <<kind, logged, savefile_tag, espm_chunk_type, cosave_type, selects, pc, err,
                   pos, cosave_header, plugin_chunks, pluggy, before, renames,
                   mapCount, loads>>

\* The file is closed and out_path.mtime = mtime; write_cosave or save
\* returns.
WriteMtime ==
    /\ pc = "open"
    /\ w.parts = <<>>
    /\ disk' = [disk EXCEPT ![w.target].mtime = w.mtime]
    /\ pc' = IF w.op \in {"write_cosave_safe", "safeSave"} THEN "untemp" ELSE "written"
    /\ UNCHANGED <<kind, logged, savefile_tag, espm_chunk_type, cosave_type, selects, err,
                   pos, cosave_header, plugin_chunks, pluggy, before, renames,
                   mapCount, loads, w>>

\* self.cosave_path.untemp(): the temporary file replaces the cosave.
Untemp ==
    /\ pc = "untemp"
    /\ disk' = [disk EXCEPT !.cosave_path = disk.temp, !.temp = Absent]
    /\ w' = [w EXCEPT !.replaced = TRUE]
    /\ pc' = "written"
    /\ UNCHANGED <<kind, logged, savefile_tag, espm_chunk_type, cosave_type, selects, err,
                   pos, cosave_header, plugin_chunks, pluggy, before, renames,
                   mapCount, loads>>

\* An I/O error while writing: open fails, a write stops after none or half of
\* its bytes, setting the mtime fails, the replace fails.  The exception
\* leaves the method, so nothing after it runs.
WriteFail ==
    /\ pc \in {"buffered", "open", "untemp"}
    /\ \/ pc # "open" /\ UNCHANGED disk
       \/ pc = "open" /\ w.parts = <<>> /\ UNCHANGED disk
       \/ /\ pc = "open"
          /\ w.parts # <<>>
          /\ \E k \in {0, Len(Head(w.parts)) \div 2} :
                disk' = [disk EXCEPT ![w.target].bytes = @ \o SubSeq(Head(w.parts), 1, k)]
    /\ pc' = "failed"
    /\ err' = IOError
    /\ UNCHANGED <<kind, logged, savefile_tag, espm_chunk_type, cosave_type, selects,
                   pos, cosave_header, plugin_chunks, pluggy, before, renames,
                   mapCount, loads, w>>

-----------------------------------------------------------------------------
(* The run on a Pluggy file.                                               *)

\* PluggyFile(cosave_path): ACoSaveFile.__init__ reads the _PluggyHeader and
\* num_plugins (0) chunks, then the fields are set to None and valid to False.
PluggyInit ==
    /\ kind = "pluggy"
    /\ pc = "new"
    /\ LET Constructed(h) ==
                /\ err' = h.err
                /\ pos' = h.pos
                /\ pc' = IF h.err = NoErr THEN "ready" ELSE "failed"
       IN  Constructed(PluggyHeaderInit(disk.cosave_path.bytes))
    /\ pluggy' = PluggyNew
    /\ UNCHANGED <<kind, logged, savefile_tag, espm_chunk_type, cosave_type, selects, disk,
                   cosave_header, plugin_chunks, before, renames, mapCount, loads, w>>

\* The game (or the user) replaces the file between two calls; load opens
\* the path again and reads what is there then.  A file written at time t
\* has mtime t.
FileReplaced(f) ==
    /\ kind = "pluggy"
    /\ pc = "ready"
    /\ disk.cosave_path.mtime <= MaxReplaced
    /\ disk' = [disk EXCEPT !.cosave_path = FileOf(f, disk.cosave_path.mtime + 1)]
    /\ UNCHANGED <<kind, logged, savefile_tag, espm_chunk_type, cosave_type, selects, pc, err,
                   pos, cosave_header, plugin_chunks, pluggy, before, renames,
                   mapCount, loads, w>>

\* PluggyFile.load()
PluggyLoad ==
    /\ kind = "pluggy"
    /\ pc = "ready"
    /\ loads < MaxLoads
    /\ LET Loaded(r) ==
                /\ pluggy' = r.obj
                /\ err' = r.err
       IN  Loaded(PluggyLoadOf(disk.cosave_path.bytes, pluggy))
    /\ loads' = loads + 1
    /\ UNCHANGED <<kind, logged, savefile_tag, espm_chunk_type, cosave_type, selects, disk, pc,
                   pos, cosave_header, plugin_chunks, before, renames, mapCount, w>>

\* An object that passes for initialized whatever load did.
PluggyValidAlways(obj) == TRUE

\* The test mapMasters and save start with: "if not self.valid: raise".
PluggyValid(obj) == obj.valid

\* PluggyFile.mapMasters(m)
PluggyMap(m) ==
    /\ kind = "pluggy"
    /\ pc = "ready"
    /\ mapCount < MaxMaps
    /\ IF PluggyValid(pluggy)
       THEN /\ pluggy' = [pluggy EXCEPT !.plugins = PluggyMapMasters(@, m)]
            /\ err' = NoErr
       ELSE /\ pluggy' = pluggy
            /\ err' = FileError("File not initialized.")
    /\ renames' = m
    /\ mapCount' = mapCount + 1
    /\ UNCHANGED <<kind, logged, savefile_tag, espm_chunk_type, cosave_type, selects, disk, pc,
                   pos, cosave_header, plugin_chunks, before, loads, w>>

\* PluggyFile.save() on the cosave's own path, or safeSave() with safe: the
\* valid check and the buffer; nothing is on disk yet.
PluggySaveBegin(safe) ==
    /\ kind = "pluggy"
    /\ pc = "ready"
    /\ IF disk.cosave_path.exists /\ PluggyValid(pluggy)
       THEN /\ LET Buffered(text, crc) ==
                    w' = [op |-> IF safe THEN "safeSave" ELSE "save",
                          target |-> IF safe THEN SafeTarget ELSE "cosave_path",
                          parts |-> <<text, crc>>,
                          text |-> text \o crc,
                          mtime |-> MtimeRead(disk),
                          orig |-> disk.cosave_path,
                          replaced |-> FALSE]
                   Checksummed(text) == Buffered(text, PackI32(Crc32(text)))
               IN  Checksummed(PluggyText(pluggy))
            /\ pc' = "buffered"
            /\ err' = NoErr
       ELSE /\ w' = [NoWrite EXCEPT !.op = IF safe THEN "safeSave" ELSE "save",
                                    !.orig = disk.cosave_path]
            /\ pc' = "failed"
            /\ err' = IF disk.cosave_path.exists THEN FileError("File not initialized.")
                      ELSE IOError
    /\ UNCHANGED <<kind, logged, savefile_tag, espm_chunk_type, cosave_type, selects, disk,
                   pos, cosave_header, plugin_chunks, pluggy, before, renames,
                   mapCount, loads>>

Next ==
    \/ \E game \in Games : GetCosaveType(game)
    \/ Load
    \/ \E m \in RenameMaps : MapMasters(m)
    \/ \E safe \in BOOLEAN : WriteCosaveBegin(safe)
    \/ WriteOpen
    \/ WritePart
    \/ WriteMtime
    \/ Untemp
    \/ WriteFail
    \/ PluggyInit
    \/ \E f \in PluggyFiles : FileReplaced(f)
    \/ PluggyLoad
    \/ \E m \in RenameMaps : PluggyMap(m)
    \/ \E safe \in BOOLEAN : PluggySaveBegin(safe)

Spec == Init /\ [][Next]_vars

-----------------------------------------------------------------------------
(* The operations on a container that holds plugin chunks.  The            *)
(* constructor gives none (NumPlugins), so here the list is what           *)
(* _PluginChunk's constructor reads from the file, one plugin chunk after  *)
(* the other, numPlugins times, with the signatures of the class selected, *)
(* from every file, whole or cut short, on which it does not raise.        *)

\* [err, groups]: the plugin chunks read, and the exception that ended the
\* reading, if any.
RECURSIVE ReadPluginChunks(_, _, _, _, _)
ReadPluginChunks(b, p, n, xse_signature, pluggy_signature) ==
    LET Cons(g, rest) == [err |-> rest.err, groups |-> <<g.group>> \o rest.groups]
        After(g) ==
            IF g.err # NoErr THEN [err |-> g.err, groups |-> <<>>]
            ELSE Cons(g, ReadPluginChunks(b, g.pos, n - 1, xse_signature,
                                          pluggy_signature))
    IN  IF n = 0 THEN [err |-> NoErr, groups |-> <<>>]
        ELSE After(PluginChunkInit(b, p, xse_signature, pluggy_signature))

\* The file without its last cut bytes.
Truncated(f, cut) == SubSeq(f, 1, Len(f) - cut)

InitWithPluginChunks ==
    /\ kind = "xse"
    /\ pc = "loaded"
    /\ selects = 1
    /\ \E game \in Games \ {"Morrowind"}, gs \in GroupSeqs, cut \in 0..MaxCut :
        LET Chunks(r) ==
                /\ r.err = NoErr
                /\ plugin_chunks = r.groups
            Object(tag, cls, f, h) ==
                /\ h.err = NoErr
                /\ cosave_type = cls
                /\ savefile_tag = tag
                /\ espm_chunk_type = EspmAfter(game, {SDOM})
                /\ disk = DiskWith(f)
                /\ cosave_header = h.hdr
                /\ pos = Len(f)
                /\ Chunks(ReadPluginChunks(f, h.pos, h.hdr.numPlugins,
                                           XseSignatureOf(cls), PluggySignatureOf(cls)))
            File(tag, f) == Object(tag, CosaveTypeOf(game), f, xSEHeaderInit(f, tag))
            Tag(tag) == File(tag, Truncated(MkCosave(tag, gs), cut))
        IN  Tag(TagAfter(game, TagOVERRIDE))
    /\ err = NoErr
    /\ pluggy = PluggyNew
    /\ before = <<>>
    /\ renames = <<>>
    /\ mapCount = 0
    /\ loads = 0
    /\ w = NoWrite
    /\ logged = NoLog

\* The save's masters, as the caller of logStatObse passes them.
SaveMasterLists == {<<>>, <<tAb, tq>>}

\* logStatObse(log, save_masters): a first call or a later one.  An
\* exception leaves the method; the container stays as it is and can be
\* used again.
LogStatObse(save_masters) ==
    /\ kind = "xse"
    /\ pc = "loaded"
    /\ LET Done(r) ==
                logged' = [called |-> TRUE, err |-> r.err,
                           save_masters |-> save_masters, outs |-> r.outs]
       IN  Done(LogPluginChunks(plugin_chunks, save_masters, EmptyMap))
    /\ UNCHANGED <<kind, savefile_tag, espm_chunk_type, cosave_type, selects, disk,
                   pc, err, pos, cosave_header, plugin_chunks, pluggy, before,
                   renames, mapCount, loads, w>>

NextWithPluginChunks ==
    \/ \E m \in RenameMaps : MapMasters(m)
    \/ \E save_masters \in SaveMasterLists : LogStatObse(save_masters)

SpecPluginChunks == InitWithPluginChunks /\ [][NextWithPluginChunks]_vars

-----------------------------------------------------------------------------
(* What a file holds, read the way _PluginChunk's constructor reads it.    *)

\* The plugin chunks a cosave file declares: numPlugins of them after the
\* header, with the signatures of the class selected.
GroupsOf(bytes) ==
    LET Groups(h) ==
            IF h.err # NoErr THEN <<>>
            ELSE ReadPluginChunks(bytes, h.pos, h.hdr.numPlugins,
                                  XseSignatureOf(cosave_type),
                                  PluggySignatureOf(cosave_type)).groups
    IN  Groups(xSEHeaderInit(bytes, savefile_tag))

\* write_cosave(out_path) has returned and map_masters was never called.
WrittenUnrenamed ==
    kind = "xse" /\ pc = "written" /\ w.op = "write_cosave" /\ mapCount = 0

-----------------------------------------------------------------------------
(* C1, C2: the constructor and write_cosave.                               *)

\* C1: round-trip identity.  For every valid generic cosave, also one whose
\* header declares one plugin group or more, constructing the cosave from the
\* file and then write_cosave with no rename applied produces bytes identical
\* to the original file.
C1_RoundTripIdentity ==
    WrittenUnrenamed => disk.out_path.bytes = disk.cosave_path.bytes

\* The round trip does hold for the files that declare no plugin group.
C1_RoundTripWithoutGroups ==
    (WrittenUnrenamed /\ cosave_header.numPlugins = 0)
        => disk.out_path.bytes = disk.cosave_path.bytes

\* What is written for a file that declares plugin groups: the header, a
\* count of 0 and nothing else.
C1_GroupsAreDropped ==
    (WrittenUnrenamed /\ cosave_header.numPlugins > 0)
        => disk.out_path.bytes = xSEWriteHeader(savefile_tag, cosave_header) \o PackU32(0)

\* C2: constructing a generic cosave whose header declares plugin count N
\* yields a container holding exactly N plugin groups (signature, declared
\* chunk count, declared data size, chunks), in file order.
C2_LoadYieldsDeclaredGroups ==
    (kind = "xse" /\ pc = "loaded" /\ mapCount = 0)
        => /\ Len(plugin_chunks) = cosave_header.numPlugins
           /\ plugin_chunks = GroupsOf(disk.cosave_path.bytes)

\* The container the constructor gives holds no plugin chunk, whatever the
\* header declares.
C2_LoadYieldsNoGroups ==
    (kind = "xse" /\ pc = "loaded") => plugin_chunks = <<>>

\* A cosave that declares plugin groups has been constructed.
C2_LoadedFileWithGroups ==
    kind = "xse" /\ pc = "loaded" /\ cosave_header.numPlugins > 0

-----------------------------------------------------------------------------
(* C3: write_cosave_safe and safeSave.                                     *)

SafeWrite == w.op \in {"write_cosave_safe", "safeSave"}

\* C3: safe write.  During write_cosave_safe and safeSave the file at the
\* original path changes only in the replace step, which runs only after the
\* whole buffer was written to the temporary path and its mtime was set, and
\* puts exactly that file at the original path; when the write has failed,
\* the replace step was not executed and the file at the original path is the
\* one that was there when the method was called.
C3_SafeWrite ==
    /\ [][ (SafeWrite /\ disk'.cosave_path # disk.cosave_path)
              => /\ pc = "untemp"
                 /\ disk.temp = FileOf(w.text, w.mtime)
                 /\ disk'.cosave_path = disk.temp
                 /\ w'.replaced ]_vars
    /\ []((SafeWrite /\ ~w.replaced) => disk.cosave_path = w.orig)
    /\ []((SafeWrite /\ pc = "failed") => ~w.replaced)

\* A safe write failed after a part of the buffer was written to the
\* temporary path.
C3_FailedMidWrite ==
    /\ SafeWrite
    /\ pc = "failed"
    /\ disk.temp.exists
    /\ disk.temp.bytes # <<>>
    /\ disk.temp.bytes # w.text
    /\ w.orig.exists

\* A safe write ran to its end: the original path holds the new file.
C3_Replaced ==
    SafeWrite /\ w.replaced /\ disk.cosave_path.bytes # w.orig.bytes

-----------------------------------------------------------------------------
(* C4, C5, C7, C8: map_masters on a container that holds plugin chunks.    *)
(* before is the list of plugin chunks when the last map_masters was       *)
(* called, renames the map it was called with.                             *)

Groups == 1..Len(plugin_chunks)
ChunksOf(i) == 1..Len(plugin_chunks[i].plugin_chunks)
Old(i, j) == before[i].plugin_chunks[j]
New(i, j) == plugin_chunks[i].plugin_chunks[j]

\* map_masters has returned: same plugin chunks, same chunks in each.
MapReturned ==
    /\ kind = "xse"
    /\ mapCount >= 1
    /\ pc = "loaded"
    /\ Len(before) = Len(plugin_chunks)
    /\ \A i \in Groups : Len(before[i].plugin_chunks) = Len(plugin_chunks[i].plugin_chunks)

\* The sum over the chunks j..n of plugin chunk i that the call edited of
\* (new chunkLength - old chunkLength).
RECURSIVE EditedDelta(_, _)
EditedDelta(i, j) ==
    IF j > Len(plugin_chunks[i].plugin_chunks) THEN 0
    ELSE (IF New(i, j) # Old(i, j) THEN New(i, j).chunkLength - Old(i, j).chunkLength
          ELSE 0) + EditedDelta(i, j + 1)

\* C4: size-delta propagation.  After map_masters every plugin chunk's
\* plugin_data_size is its value before the call plus the sum, over the
\* chunks of that plugin chunk that the rename edited, of (new chunk length -
\* old chunk length); a plugin chunk with no edited chunk keeps its size.
C4_SizeDeltaPropagation ==
    MapReturned =>
        \A i \in Groups :
            /\ plugin_chunks[i].plugin_data_size
                  = before[i].plugin_data_size + EditedDelta(i, 1)
            /\ (plugin_chunks[i].plugin_chunks = before[i].plugin_chunks
                   => plugin_chunks[i].plugin_data_size = before[i].plugin_data_size)

\* map_masters changed the length of a chunk and with it the declared size.
C4_SizeChanged ==
    /\ MapReturned
    /\ \E i \in Groups :
          /\ plugin_chunks[i].plugin_data_size # before[i].plugin_data_size
          /\ \E j \in ChunksOf(i) : New(i, j).chunkLength # Old(i, j).chunkLength

\* A chunk map_masters has to leave alone: an _xSEChunk whose type is not in
\* _espm_chunk_type, a _PluggyChunk whose type is not 1.
NotMasterList(c) ==
    \/ c.cls = "_xSEChunk" /\ c.chunkType \notin espm_chunk_type
    \/ c.cls = "_PluggyChunk" /\ UnpU32(c.chunkType) # 1

NoValueIsKey(m) == \A k \in DOMAIN m : Lower(m[k]) \notin DOMAIN m

\* C7: rename idempotence.  For any state of the container and any rename
\* map none of whose values is itself a key of the map, map_masters called
\* twice with the map gives the same chunk data, chunk lengths and declared
\* sizes, hence the same written bytes, as map_masters called once.
C7_RenameIdempotence ==
    kind = "xse" =>
        \A m \in RenameMaps :
            NoValueIsKey(m) =>
                LET Twice(once) ==
                        /\ once.err = NoErr
                        /\ MapMastersOf(once.groups, m, espm_chunk_type) = once
                        /\ WritePluginChunks(
                               MapMastersOf(once.groups, m, espm_chunk_type).groups)
                             = WritePluginChunks(once.groups)
                IN  Twice(MapMastersOf(plugin_chunks, m, espm_chunk_type))

\* map_masters was called twice with a map that has no value among its keys:
\* the first call changed names and sizes, the second changed nothing.
C7_SecondCallChangedNothing ==
    /\ MapReturned
    /\ mapCount = 2
    /\ renames # <<>>
    /\ NoValueIsKey(renames)
    /\ plugin_chunks = before
    /\ plugin_chunks = MapMastersOf(GroupsOf(disk.cosave_path.bytes), renames,
                                    espm_chunk_type).groups
    /\ \E i \in Groups :
          plugin_chunks[i].plugin_data_size
              # GroupsOf(disk.cosave_path.bytes)[i].plugin_data_size

\* The names of a master-list payload from offset p on, decoded.
RECURSIVE MasterNames(_, _)
MasterNames(data, p) ==
    IF p >= Len(data) THEN <<>>
    ELSE LET Name(raw) == <<GPath(raw)>> \o MasterNames(data, p + 2 + Len(raw))
         IN  Name(Read(data, p + 2, UnpU16(Read(data, p, 2))))

\* The payload is a count byte followed by count length-prefixed names.
WellFormedMasters(data) ==
    /\ Len(data) >= 1
    /\ Len(MasterNames(data, 1)) = data[1]
    /\ Len(data) = 1 + 2 * data[1] + Len(Concat(MasterNames(data, 1)))

\* The names, each one encoded and prefixed by its length as a u16.
PrefixedNames(names) ==
    Concat([k \in 1..Len(names) |-> PackU16(Len(Encode(names[k]))) \o Encode(names[k])])

\* C8: generic-dialect master-list rewrite.  For a chunk whose type is in the
\* master-list set and whose payload is a count byte followed by count
\* length-prefixed names, the payload after map_masters is the same count
\* byte followed by exactly count names in the original order, each one the
\* map's value if the original name is a key of the map and the original
\* name otherwise, each prefixed by a u16 equal to its encoded length; the
\* chunk's length field equals the size of the new payload.
C8_MasterListRewrite ==
    MapReturned =>
        \A i \in Groups : \A j \in ChunksOf(i) :
            (/\ Old(i, j).cls = "_xSEChunk"
             /\ Old(i, j).chunkType \in espm_chunk_type
             /\ WellFormedMasters(Old(i, j).chunkData))
            => LET names == MasterNames(Old(i, j).chunkData, 1)
                   renamed == [k \in 1..Len(names) |->
                                  IF Lower(names[k]) \in DOMAIN renames
                                  THEN renames[Lower(names[k])] ELSE names[k]]
               IN  /\ New(i, j).chunkData
                         = <<Old(i, j).chunkData[1]>> \o PrefixedNames(renamed)
                   /\ Len(renamed) = Old(i, j).chunkData[1]
                   /\ New(i, j).chunkLength = Len(New(i, j).chunkData)
                   /\ New(i, j).chunkType = Old(i, j).chunkType
                   /\ New(i, j).chunkVersion = Old(i, j).chunkVersion

\* A master list of two names of which map_masters renamed the first and
\* kept the second, the new name being longer than the old.
C8_OneOfTwoRenamed ==
    /\ MapReturned
    /\ \E i \in Groups : \E j \in ChunksOf(i) :
          /\ Old(i, j).cls = "_xSEChunk"
          /\ Old(i, j).chunkType \in espm_chunk_type
          /\ Old(i, j).chunkData[1] = 2
          /\ MasterNames(New(i, j).chunkData, 1)[1] # MasterNames(Old(i, j).chunkData, 1)[1]
          /\ MasterNames(New(i, j).chunkData, 1)[2] = MasterNames(Old(i, j).chunkData, 1)[2]
          /\ New(i, j).chunkLength > Old(i, j).chunkLength

-----------------------------------------------------------------------------
(* C6: a plugin chunk of another plugin, from the file to the file.        *)

UnknownSignature(g) ==
    g.plugin_signature
        \notin {XseSignatureOf(cosave_type), PluggySignatureOf(cosave_type)}

\* C6: unknown-plugin passthrough.  A plugin group whose signature is neither
\* the extender's nor the legacy companion's reserved signature is
\* byte-identical (signature, chunk count, declared size, every chunk) after
\* load, map_masters with any map, and write.
C6_UnknownPluginPassthrough ==
    (kind = "xse" /\ pc = "written" /\ w.op = "write_cosave" /\ mapCount >= 1)
        => LET Same(orig, out) ==
                   \A i \in 1..Len(orig) :
                       UnknownSignature(orig[i])
                           => /\ i <= Len(out)
                              /\ WritePluginChunk(out[i]) = WritePluginChunk(orig[i])
           IN  Same(GroupsOf(disk.cosave_path.bytes), GroupsOf(disk.out_path.bytes))

\* On a container that holds plugin chunks, map_masters leaves those of
\* another plugin as they are, a chunk of type SDOM included.
C6_MapMastersKeepsUnknownGroups ==
    MapReturned =>
        \A i \in Groups : UnknownSignature(before[i]) => plugin_chunks[i] = before[i]

-----------------------------------------------------------------------------
(* C9, C10: what is rejected and when.                                     *)

\* The file holds len(savefile_tag) bytes or more and they are not the tag.
TagDiffers ==
    /\ Len(disk.cosave_path.bytes) >= Len(savefile_tag)
    /\ Read(disk.cosave_path.bytes, 0, Len(savefile_tag)) # savefile_tag

\* C9: tag rejection.  Constructing a generic header from a stream whose
\* first len(tag) bytes differ from the tag expected fails with a file error
\* that carries the expected and the actual tag; the stream is left right
\* after the tag, so no further field was read, no header field is set and
\* no plugin group is parsed.
C9_TagRejection ==
    (kind = "xse" /\ pc # "select" /\ TagDiffers)
        => /\ pc = "failed"
           /\ err.type = "FileError"
           /\ err.expected = savefile_tag
           /\ err.actual = Read(disk.cosave_path.bytes, 0, Len(savefile_tag))
           /\ err.actual # err.expected
           /\ pos = Len(savefile_tag)
           /\ cosave_header = NoHeader
           /\ plugin_chunks = <<>>

\* The constructor rejected a file that, but for its tag, is a cosave with
\* plugin groups.
C9_GarbageTagRejected ==
    /\ kind = "xse"
    /\ pc = "failed"
    /\ TagDiffers
    /\ Len(disk.cosave_path.bytes) > Len(savefile_tag) + 16
    /\ err.actual = TagGarbage

\* The last four bytes of the file are not the CRC32 of the bytes before.
ChecksumDiffers(b) ==
    /\ Len(b) >= 4
    /\ UnpI32(SubSeq(b, Len(b) - 3, Len(b))) # Crc32(SubSeq(b, 1, Len(b) - 4))

\* C10: checksum enforcement.  PluggyFile.load compares the last four bytes
\* with the CRC32 of all bytes before them before any structural check: a
\* file whose stored checksum does not match fails with the checksum error,
\* also when its tag, version or record marker are invalid too, and load
\* stores nothing on the object.
C10_ChecksumFirst ==
    [][ (kind = "pluggy" /\ loads' = loads + 1 /\ ChecksumDiffers(disk.cosave_path.bytes))
          => /\ err' = FileError("CRC32 file check failed")
             /\ pluggy' = pluggy ]_vars

\* load failed on the checksum of a file whose tag, or whose record marker,
\* is wrong as well.
C10_ChecksumErrorOnBadTag ==
    /\ kind = "pluggy"
    /\ loads >= 1
    /\ err = FileError("CRC32 file check failed")
    /\ ChecksumDiffers(disk.cosave_path.bytes)
    /\ Read(disk.cosave_path.bytes, 0, Len(TagPluggySave)) # TagPluggySave
    /\ pluggy = PluggyNew

-----------------------------------------------------------------------------
(* C11: a PluggyFile that was never loaded.                                *)

NotInitialized == FileError("File not initialized.")

\* The step is a call of mapMasters, save or safeSave on the PluggyFile.
PluggyMutation ==
    /\ kind = "pluggy"
    /\ pc = "ready"
    /\ (mapCount' = mapCount + 1 \/ w'.op \in {"save", "safeSave"})

\* C11: on a PluggyFile for which no load has completed successfully,
\* mapMasters and save fail at once with the file error, change no field of
\* the object and write nothing to disk.
C11_NotLoaded ==
    /\ [][ (PluggyMutation /\ ~pluggy.valid)
              => /\ err' = NotInitialized
                 /\ pluggy' = pluggy
                 /\ disk' = disk ]_vars
    /\ []((kind = "pluggy" /\ w.op \in {"save", "safeSave"} /\ ~pluggy.valid)
             => /\ pc = "failed"
                /\ disk = [DiskWith(<<>>) EXCEPT !.cosave_path = w.orig])

\* save was rejected on an object whose only load failed after it had stored
\* the version and an empty plugin list.
C11_SaveRejectedAfterFailedLoad ==
    /\ kind = "pluggy"
    /\ w.op = "save"
    /\ pc = "failed"
    /\ err = NotInitialized
    /\ ~pluggy.valid
    /\ loads >= 1
    /\ pluggy.hasPlugins

-----------------------------------------------------------------------------
(* C12: what PluggyFile.save writes.                                       *)

\* save or safeSave has returned: the file is at the cosave's path.
PluggySaved ==
    kind = "pluggy" /\ pc = "written" /\ w.op \in {"save", "safeSave"}

\* What save writes before other: magic, version, marker, count, entries.
SavedHead ==
    TagPluggySave \o PackU32(pluggy.version) \o <<0>>
        \o PackU32(Len(pluggy.plugins)) \o PluggyWritePlugins(pluggy.plugins)

\* The bytes of the saved file between the last plugin entry and the
\* checksum.
SavedTrailer ==
    SubSeq(disk.cosave_path.bytes, Len(SavedHead) + 1, Len(disk.cosave_path.bytes) - 4)

\* C12 as stated: for every loaded file and every trailer, the bytes save
\* writes between the last plugin entry and the checksum are exactly the
\* trailer bytes stored at load, and magic, version, marker, count and entries
\* precede them in that order.
C12_TrailerVerbatim ==
    PluggySaved
        => /\ SubSeq(disk.cosave_path.bytes, 1, Len(SavedHead)) = SavedHead
           /\ SavedTrailer = pluggy.other

\* C12 as the code has it, for a trailer of four bytes or more (which every
\* file that load accepts has): magic, version, marker, count and entries come
\* first, in that order; then the trailer stored at load, of which all bytes
\* but the last four are written verbatim and the last four are the end
\* control, the offset in the file at which these four bytes start.
C12_TrailerButEndControl ==
    (PluggySaved /\ Len(pluggy.other) >= 4)
        => /\ SubSeq(disk.cosave_path.bytes, 1, Len(SavedHead)) = SavedHead
           /\ Len(SavedTrailer) = Len(pluggy.other)
           /\ SubSeq(SavedTrailer, 1, Len(SavedTrailer) - 4)
                 = SubSeq(pluggy.other, 1, Len(pluggy.other) - 4)
           /\ UnpU32(SubSeq(SavedTrailer, Len(SavedTrailer) - 3, Len(SavedTrailer)))
                 = Len(SavedHead) + Len(pluggy.other) - 4

\* A file was saved whose trailer, as loaded, did not end in the end control:
\* its first byte is written as it was, its last four are not.
C12_TrailerEndRewritten ==
    /\ PluggySaved
    /\ Len(pluggy.other) > 4
    /\ SavedTrailer # pluggy.other
    /\ SavedTrailer[1] = pluggy.other[1]

\* A file was saved whose trailer did end in the end control, with no name
\* changing its length: the trailer is written verbatim.
C12_TrailerKept ==
    PluggySaved /\ Len(pluggy.other) > 4 /\ SavedTrailer = pluggy.other

-----------------------------------------------------------------------------
(* C13: the checksum save appends, and load of what save wrote.            *)

\* The entries are the same but for the case of the names.
SameEntriesUpToCase(ps, qs) ==
    /\ Len(ps) = Len(qs)
    /\ \A i \in 1..Len(ps) :
          /\ ps[i][1] = qs[i][1]
          /\ ps[i][2] = qs[i][2]
          /\ Lower(ps[i][3]) = Lower(qs[i][3])

\* load of the saved file on a new object: no error, the entries saved.
ReloadYieldsSaved ==
    LET Same(r) ==
            /\ r.err = NoErr
            /\ r.obj.valid
            /\ SameEntriesUpToCase(r.obj.plugins, pluggy.plugins)
    IN  Same(PluggyLoadOf(disk.cosave_path.bytes, PluggyNew))

\* C13: the last four bytes of every file PluggyFile.save writes are the
\* CRC32 of all bytes written before them, so load of a file that save wrote
\* never fails the checksum check and yields the plugin entries (esp id,
\* plugin index, file name up to case) that were saved.
C13_FreshChecksum ==
    PluggySaved
        => /\ ~ChecksumDiffers(disk.cosave_path.bytes)
           /\ ReloadYieldsSaved

\* The part of C13 about the checksum alone.
C13_ChecksumIsFresh ==
    PluggySaved
        => /\ Len(disk.cosave_path.bytes) >= 4
           /\ ~ChecksumDiffers(disk.cosave_path.bytes)
           /\ PluggyLoadOf(disk.cosave_path.bytes, PluggyNew).err
                 # FileError("CRC32 file check failed")

\* load of the saved file gives the entries saved when the object's version
\* and trailer are such as a load that succeeds leaves them.
C13_ReloadOfConsistentObject ==
    (PluggySaved /\ pluggy.version >= PluggyMinVersion /\ Len(pluggy.other) >= 4)
        => ReloadYieldsSaved

\* save has written an object that is valid from an earlier load and whose
\* version comes from a later load that failed.
C13_SavedAfterFailedReload ==
    PluggySaved /\ pluggy.valid /\ pluggy.version < PluggyMinVersion

-----------------------------------------------------------------------------
(* C14: PluggyFile.mapMasters.                                             *)

\* C14: after mapMasters(M) on a loaded PluggyFile the number and order of
\* the entries and each entry's esp id and plugin index are unchanged, each
\* file name is M's value if it is a key of M and unchanged otherwise, and
\* version, trailer and valid flag are unchanged.
C14_MapMastersOnlyNames ==
    [][ (kind = "pluggy" /\ mapCount' = mapCount + 1 /\ pluggy.valid)
          => /\ err' = NoErr
             /\ Len(pluggy'.plugins) = Len(pluggy.plugins)
             /\ \A i \in 1..Len(pluggy.plugins) :
                   /\ pluggy'.plugins[i][1] = pluggy.plugins[i][1]
                   /\ pluggy'.plugins[i][2] = pluggy.plugins[i][2]
                   /\ pluggy'.plugins[i][3]
                         = IF Lower(pluggy.plugins[i][3]) \in DOMAIN renames'
                           THEN renames'[Lower(pluggy.plugins[i][3])]
                           ELSE pluggy.plugins[i][3]
             /\ pluggy'.version = pluggy.version
             /\ pluggy'.other = pluggy.other
             /\ pluggy'.valid = pluggy.valid
             /\ pluggy' = [pluggy EXCEPT !.plugins = pluggy'.plugins]
             /\ disk' = disk ]_vars

\* mapMasters renamed the first of two entries ("Ab" to "Xyz") and kept the
\* second.
C14_FirstOfTwoRenamed ==
    /\ kind = "pluggy"
    /\ pc = "ready"
    /\ mapCount = 1
    /\ err = NoErr
    /\ pluggy.valid
    /\ renames = (tab :> tXyz)
    /\ pluggy.plugins = << <<1, 0, tXyz>>, <<2, 1, tq>> >>
    /\ Len(pluggy.other) > 4

-----------------------------------------------------------------------------
(* C15: files that end too early.                                          *)

\* The constructors have returned and nothing was renamed yet.
Constructed == kind = "xse" /\ pc = "loaded" /\ mapCount = 0

\* C15: reading fails whenever the stream ends before a required field or
\* before a chunk's payload of chunkLength bytes was read in full: no
\* construction completes with a chunk whose data holds fewer bytes than its
\* declared length.
C15_Truncation ==
    Constructed =>
        \A i \in Groups : \A j \in ChunksOf(i) :
            Len(New(i, j).chunkData) = New(i, j).chunkLength

\* A stream that ends inside the header's fields does make the constructor
\* raise.
C15_ShortHeaderFails ==
    (kind = "xse" /\ pc # "select"
       /\ Len(disk.cosave_path.bytes) < Len(savefile_tag) + 16
       /\ ~TagDiffers)
        => pc = "failed" /\ err = StructError

\* _PluginChunk's constructor returned on a file cut inside the payload of
\* its last chunk: the chunk holds fewer bytes than it declares.
C15_ShortChunkConstructed ==
    /\ Constructed
    /\ \E i \in Groups : \E j \in ChunksOf(i) :
          Len(New(i, j).chunkData) < New(i, j).chunkLength

-----------------------------------------------------------------------------
(* C16: chunkLength and the length of chunkData.                           *)

LengthIsDataSize(c) == c.chunkLength = Len(c.chunkData)

\* C16: in every reachable state, after construction and after any sequence
\* of map_masters calls, every chunk's length field equals the number of
\* bytes in its data.
C16_ChunkLengthInvariant ==
    (kind = "xse" /\ pc = "loaded") =>
        \A i \in Groups : \A j \in ChunksOf(i) : LengthIsDataSize(New(i, j))

\* The second half of C16: a call that changes a chunk's data sets its
\* length to the new size in the same call.
C16_EditSetsLength ==
    MapReturned =>
        \A i \in Groups : \A j \in ChunksOf(i) :
            New(i, j).chunkData # Old(i, j).chunkData => LengthIsDataSize(New(i, j))

\* map_masters keeps the invariant where the constructor established it.
C16_KeptWhereConstructed ==
    MapReturned =>
        \A i \in Groups : \A j \in ChunksOf(i) :
            LengthIsDataSize(Old(i, j)) => LengthIsDataSize(New(i, j))

\* After map_masters a chunk that no rename touches still holds fewer bytes
\* than it declares, as the constructor left it.
C16_ShortChunkAfterMap ==
    /\ MapReturned
    /\ \E i \in Groups : \E j \in ChunksOf(i) :
          New(i, j) = Old(i, j) /\ ~LengthIsDataSize(New(i, j))

-----------------------------------------------------------------------------
(* C17: plugin_data_size and the chunks' lengths.                          *)

\* The sum of (k + chunkLength) over the chunks.
RECURSIVE SumSizes(_, _)
SumSizes(chunks, k) ==
    IF chunks = <<>> THEN 0
    ELSE k + Head(chunks).chunkLength + SumSizes(Tail(chunks), k)

SizeIsSum(g, k) == g.plugin_data_size = SumSizes(g.plugin_chunks, k)

\* C17: after construction and after any sequence of master renames, every
\* plugin chunk's plugin_data_size equals the sum of (8 + chunk length) over
\* all its chunks.
C17_GroupSizeInvariant ==
    (kind = "xse" /\ pc = "loaded") => \A i \in Groups : SizeIsSum(plugin_chunks[i], 8)

\* What map_masters does keep: the difference between plugin_data_size and
\* the sum of the chunk lengths, so the relation the file came with, whether
\* it counts 8 or 12 bytes for each chunk.
C17_RelationKept ==
    MapReturned =>
        \A i \in Groups : \A k \in {8, 12} :
            SizeIsSum(before[i], k) => SizeIsSum(plugin_chunks[i], k)

\* A plugin chunk that came with the sum of (8 + length) and still has it
\* after a rename changed a length.
C17_SumOfEightKept ==
    /\ MapReturned
    /\ \E i \in Groups :
          /\ SizeIsSum(plugin_chunks[i], 8)
          /\ plugin_chunks[i].plugin_data_size # before[i].plugin_data_size

\* A plugin chunk constructed from a whole file of which it declares the
\* bytes its chunks take, 12 and the payload for each, and not the sum of
\* (8 + length).
C17_SumOfTwelveRead ==
    /\ Constructed
    /\ \E i \in Groups :
          /\ SizeIsSum(plugin_chunks[i], 12)
          /\ \A j \in ChunksOf(i) : LengthIsDataSize(New(i, j))

-----------------------------------------------------------------------------
(* C18: the modification time of the written file.                         *)

\* The file the write produced: the target, or the cosave once the temporary
\* file has replaced it.
WrittenFile == IF w.replaced THEN disk.cosave_path ELSE disk[w.target]

\* C18: when write_cosave, write_cosave_safe or safeSave has set the mtime of
\* the file it wrote, that mtime is the one the cosave had when the write
\* started, and that mtime was read before anything was written: while the
\* buffer is built and no file is open yet, the cosave is as it was, the
\* other paths hold nothing, and the mtime to set is already the cosave's.
C18_TimestampPreserved ==
    w.op \in {"write_cosave", "write_cosave_safe", "safeSave"} =>
        /\ pc \in {"untemp", "written"} =>
              /\ WrittenFile.exists
              /\ WrittenFile.mtime = w.orig.mtime
        /\ pc = "buffered" =>
              /\ w.mtime = w.orig.mtime
              /\ disk.cosave_path = w.orig
              /\ ~disk.temp.exists
              /\ ~disk.out_path.exists

\* A safe write has replaced the cosave with other bytes, written later than
\* the cosave was, and the cosave has the mtime it had before.
C18_ReplacedWithOldMtime ==
    /\ pc = "written"
    /\ w.op \in {"write_cosave_safe", "safeSave"}
    /\ w.replaced
    /\ disk.cosave_path.bytes # w.orig.bytes
    /\ disk.cosave_path.mtime = w.orig.mtime
    /\ w.orig.mtime # Now

-----------------------------------------------------------------------------
(* C19, C20: logStatObse.                                                  *)

\* Every chunk of the container holds as many bytes as its length says.
WholeChunks ==
    \A i \in Groups : \A j \in ChunksOf(i) : LengthIsDataSize(New(i, j))

\* C19: a logStatObse call (the only step that sets logged; a call that
\* leaves it as it was changes nothing at all), the first or a later one,
\* before or after map_masters, changes no field of the header, of a plugin chunk or of a
\* chunk, so what a write after it produces is what a write before it would
\* have produced; and what it logs for a plugin chunk is what that plugin
\* chunk's own chunks give from an empty scratch map, whatever the plugin
\* chunks before it or an earlier call put in theirs.
C19_DescribeReadOnly ==
    [][logged' # logged =>
          /\ savefile_tag' = savefile_tag
          /\ cosave_header' = cosave_header
          /\ plugin_chunks' = plugin_chunks
          /\ CosaveText(savefile_tag', cosave_header', plugin_chunks')
                = CosaveText(savefile_tag, cosave_header, plugin_chunks)
          /\ \A i \in 1..Len(logged'.outs) :
                logged'.outs[i]
                  = LogChunks(plugin_chunks[i].plugin_chunks, logged'.save_masters,
                              EmptyMap).out]_vars

\* A logStatObse call after a map_masters call that renamed an ESP has logged
\* two plugin chunks: the first listed its ESPs and resolved a mod in them,
\* to the new name; the second resolved none and logged ERROR, before its
\* name chunk of two bytes ended the call.
C19_SecondGroupFresh ==
    /\ logged.called
    /\ mapCount >= 1
    /\ logged.outs # LogPluginChunks(before, logged.save_masters, EmptyMap).outs
    /\ Len(logged.outs) = 2
    /\ logged.outs[1] # <<>>
    /\ ErrorText \notin {logged.outs[1][k] : k \in 1..Len(logged.outs[1])}
    /\ logged.outs[2] = <<ErrorText>>

\* A logStatObse call that returned, on a container with plugin chunks.
C19_Returned ==
    /\ logged.called
    /\ logged.err = NoErr
    /\ plugin_chunks # <<>>
    /\ \E i \in 1..Len(logged.outs) : logged.outs[i] # <<>>

\* C20: logStatObse does not raise on a container whose chunks are all
\* well framed, whatever their payloads hold.
C20_DescribeNeverAborts ==
    WholeChunks => logged.err = NoErr

\* The payloads on which it raises.  An 'RVTS' chunk of 5 bytes, shorter
\* than the 7 its fixed fields take:
C20_ShortPayloadRaises ==
    /\ WholeChunks
    /\ logged.called
    /\ logged.err = StructError

\* An array whose first element has data type 0, with the save's masters
\* passed, so that the array of the second master before it is logged:
C20_TypeZeroRaises ==
    /\ WholeChunks
    /\ logged.save_masters # <<>>
    /\ logged.err = UnboundLocalError

\* An array with an element of data type 5, or a mod index that is not in
\* the list of masters passed:
C20_TypeFiveOrUnknownModRaises ==
    /\ WholeChunks
    /\ logged.err = IndexError

-----------------------------------------------------------------------------
(* C21: write_header against the header's constructor.                     *)

\* The cosave is the file the container was constructed from: the program
\* has not written to it, and nothing has replaced it.
xSEConstructed == kind = "xse" /\ pc = "loaded"
PluggyConstructed == kind = "pluggy" /\ pc = "ready" /\ disk.cosave_path.mtime = 1

\* The bytes the header's constructor read.
xSEHeaderBytes == Read(disk.cosave_path.bytes, 0, Len(savefile_tag) + 12)
PluggyHeaderBytes == Read(disk.cosave_path.bytes, 0, Len(TagPluggySave) + 4)

\* C21: for either header class, write_header on a header constructed from
\* a file writes the bytes the constructor read: the tag and the version
\* fields (the plugin count of an _xSEHeader is written by write_cosave).
C21_HeaderWriteInverse ==
    /\ xSEConstructed => xSEWriteHeader(savefile_tag, cosave_header) = xSEHeaderBytes
    /\ PluggyConstructed => PluggyWriteHeader = PluggyHeaderBytes

\* What holds: _xSEHeader writes back what it read.
C21_xSEHeaderInverse ==
    xSEConstructed => xSEWriteHeader(savefile_tag, cosave_header) = xSEHeaderBytes

\* An _xSEHeader constructed from a file with plugin chunks after it.
C21_xSEHeaderRead ==
    /\ xSEConstructed
    /\ cosave_header.numPlugins > 0
    /\ Len(disk.cosave_path.bytes) > Len(xSEHeaderBytes) + 4

\* A _PluggyHeader constructed from a file of a version below 0x0105000,
\* for which write_header writes 0x0105000.
C21_OlderPluggyVersion ==
    /\ PluggyConstructed
    /\ UnpU32(Read(disk.cosave_path.bytes, Len(TagPluggySave), 4)) < PluggyMaxVersion

-----------------------------------------------------------------------------
(* C22: the order of load's checks.                                        *)

\* The file load reads, its body (all but the checksum), and the fields at
\* their offsets in the body.
LoadedBody == SubSeq(disk.cosave_path.bytes, 1, Len(disk.cosave_path.bytes) - 4)
BodyTag == Read(LoadedBody, 0, 10)
BodyVersion == UnpU32(Read(LoadedBody, 10, 4))
BodyMarker == LoadedBody[15]
BodyCount == UnpU32(Read(LoadedBody, 15, 4))

\* A load call on a file that holds the fixed fields and whose checksum is
\* right.
LoadPassedChecksum ==
    /\ loads' = loads + 1
    /\ Len(disk.cosave_path.bytes) >= 23
    /\ ~ChecksumDiffers(disk.cosave_path.bytes)

\* The bytes of count entries at the start of data.
RECURSIVE EntriesSize(_, _)
EntriesSize(data, count) ==
    IF count = 0 THEN 0
    ELSE LET Rest(size) == size + EntriesSize(SubSeq(data, size + 1, Len(data)), count - 1)
         IN  Rest(6 + UnpU32(Read(data, 2, 4)))

\* C22: once the checksum has passed, load compares the tag, then rejects a
\* version below 0x01020000 and no other, then requires the marker to be 0,
\* then reads the count and that many entries.  The first test that fails
\* gives the exception, and nothing after it is read: a wrong tag leaves the
\* object as it was, a rejected version leaves entries and trailer as they
\* were, a wrong marker leaves the trailer as it was and no entry; when all
\* pass, the entries are count many and the trailer is what follows them.
C22_LoadValidationOrder ==
    [][LoadPassedChecksum =>
          IF BodyTag # TagPluggySave
          THEN /\ err' = FileError("File tag != PluggySave")
               /\ pluggy' = pluggy
          ELSE IF BodyVersion < PluggyMinVersion
          THEN /\ err' = FileError("Unsupported file version")
               /\ pluggy' = [pluggy EXCEPT !.version = BodyVersion]
          ELSE IF BodyMarker # 0
          THEN /\ err' = FileError("Expected plugins record")
               /\ pluggy' = [pluggy EXCEPT !.version = BodyVersion,
                                           !.plugins = <<>>, !.hasPlugins = TRUE]
          ELSE /\ err' \in {NoErr, StructError}
               /\ pluggy'.version = BodyVersion
               /\ err' = NoErr =>
                     /\ Len(pluggy'.plugins) = BodyCount
                     /\ pluggy'.other
                          = SubSeq(LoadedBody,
                                   20 + EntriesSize(SubSeq(LoadedBody, 20, Len(LoadedBody)),
                                                    BodyCount),
                                   Len(LoadedBody))]_vars

\* A load that rejected the version of a file whose marker is wrong too, and
\* a load that accepted the oldest version.
C22_VersionBeforeMarker ==
    /\ kind = "pluggy"
    /\ loads > 0
    /\ Len(disk.cosave_path.bytes) >= 23
    /\ BodyMarker # 0
    /\ err = FileError("Unsupported file version")
    /\ pluggy.version = BodyVersion
    /\ ~pluggy.hasPlugins

C22_OldestVersionLoaded ==
    /\ kind = "pluggy"
    /\ pluggy.valid
    /\ err = NoErr
    /\ pluggy.version = PluggyMinVersion
    /\ Len(pluggy.plugins) = 2

-----------------------------------------------------------------------------
(* C23: the rename of a Pluggy chunk of type 1.                            *)

\* The entries of a payload: espId, modId, then the name that the next four
\* bytes give the length of.
RECURSIVE PluggyEntriesOf(_, _)
PluggyEntriesOf(data, p) ==
    IF p >= Len(data) THEN <<>>
    ELSE LET Entry(raw) ==
                 << <<data[p + 1], data[p + 2], GPath(raw)>> >>
                     \o PluggyEntriesOf(data, p + 6 + Len(raw))
         IN  Entry(Read(data, p + 6, UnpU32(Read(data, p + 2, 4))))

\* The payload the rename is to leave: for every entry and in their order,
\* espId, modId, the length of the name's bytes, the name's bytes, the name
\* being the map's value for it or itself, case-folded.
RECURSIVE PluggyRenamed(_, _)
PluggyRenamed(entries, m) ==
    IF entries = <<>> THEN <<>>
    ELSE LET Emit(bytes) ==
                 PackU8(Head(entries)[1]) \o PackU8(Head(entries)[2])
                     \o PackU32(Len(bytes)) \o bytes
                     \o PluggyRenamed(Tail(entries), m)
         IN  Emit(Encode(Lower(DictGet(m, Head(entries)[3]))))

\* A chunk of class _PluggyChunk whose type reads 1.
PluggyEspChunk(c) == c.cls = "_PluggyChunk" /\ UnpU32(c.chunkType) = 1

-----------------------------------------------------------------------------
(* C24: the class of a plugin chunk's chunks.                              *)

\* The class the signature of plugin chunk g stands for in the dialect
\* selected.
ClassOfSignature(g) ==
    IF g.plugin_signature = (IF cosave_type = "SkseCosave" THEN 0 ELSE XseSignature)
    THEN "_xSEChunk"
    ELSE IF cosave_type = "ObseCosave" /\ g.plugin_signature = PluggySignature
    THEN "_PluggyChunk"
    ELSE "_AChunk"

\* C24: all chunks of a plugin chunk are of the one class its signature
\* stands for: _xSEChunk for the extender's own signature, _PluggyChunk for
\* Pluggy's signature in the dialect that has one, _AChunk otherwise; in a
\* dialect without a Pluggy signature no chunk is a _PluggyChunk.  This
\* stays so through map_masters and logStatObse.
C24_ChunkVariantSelection ==
    (kind = "xse" /\ pc \in {"loaded", "failed"}) =>
        \A i \in Groups :
            /\ \A j \in ChunksOf(i) : New(i, j).cls = ClassOfSignature(plugin_chunks[i])
            /\ cosave_type # "ObseCosave" =>
                  \A j \in ChunksOf(i) : New(i, j).cls # "_PluggyChunk"

\* A Skyrim container with a plugin chunk of signature 0, whose chunks are
\* _xSEChunk, and one of signature 0x2330, whose chunks are _AChunk.
C24_PluggySignatureOpaque ==
    /\ kind = "xse"
    /\ cosave_type = "SkseCosave"
    /\ \E i, k \in Groups :
          /\ plugin_chunks[i].plugin_signature = PluggySignature
          /\ Len(plugin_chunks[i].plugin_chunks) >= 2
          /\ \A j \in ChunksOf(i) : New(i, j).cls = "_AChunk"
          /\ plugin_chunks[k].plugin_signature = 0
          /\ \A j \in ChunksOf(k) : New(k, j).cls = "_xSEChunk"

\* An Oblivion container with a plugin chunk whose chunks are _PluggyChunk.
C24_PluggyChunksInOblivion ==
    /\ kind = "xse"
    /\ cosave_type = "ObseCosave"
    /\ \E i \in Groups :
          /\ Len(plugin_chunks[i].plugin_chunks) >= 2
          /\ \A j \in ChunksOf(i) : New(i, j).cls = "_PluggyChunk"

-----------------------------------------------------------------------------
(* C25: what a Pluggy chunk that names a mod is logged with.               *)

\* The (modId, value) pairs a chunk of type 1 records, in order: the espId
\* in a chunk of version 2, the name otherwise.
RECURSIVE EspAssociations(_, _, _)
EspAssociations(version, data, p) ==
    IF p >= Len(data) THEN <<>>
    ELSE IF version = 2
         THEN IF Len(data) < p + 2 THEN <<>>
              ELSE << <<data[p + 2], Dec(data[p + 1])>> >>
                       \o EspAssociations(version, data, p + 2)
    ELSE IF Len(data) < p + 6 THEN <<>>
    ELSE LET Entry(raw) ==
                 << <<data[p + 2], raw>> >>
                     \o EspAssociations(version, data, Min(p + 6 + Len(raw), Len(data)))
         IN  Entry(Read(data, p + 6, UnpU32(Read(data, p + 2, 4))))

\* The pairs recorded by the chunks of type 1 among the first n of chunks.
RECURSIVE AssociationsBefore(_, _)
AssociationsBefore(chunks, n) ==
    IF n = 0 THEN <<>>
    ELSE AssociationsBefore(chunks, n - 1)
            \o (IF UnpU32(chunks[n].chunkType) = 1
                THEN EspAssociations(chunks[n].chunkVersion, chunks[n].chunkData, 0)
                ELSE <<>>)

\* The value of the last pair for modId, or ERROR.
LastAssociation(pairs, modId) ==
    LET At == {k \in 1..Len(pairs) : pairs[k][1] = modId}
    IN  IF At = {} THEN ErrorText
        ELSE pairs[CHOOSE k \in At : \A l \in At : l <= k][2]

\* A chunk that names a mod: a string, an array, a HudS, a HudT.
NamesMod(c) == UnpU32(c.chunkType) \in {2, 3, 6, 7} /\ Len(c.chunkData) >= 5

\* What the chunks from j on are to be logged with, each from the pairs
\* recorded before it in chunks.
RECURSIVE RenderedFrom(_, _)
RenderedFrom(chunks, j) ==
    IF j > Len(chunks) THEN <<>>
    ELSE (IF NamesMod(chunks[j])
          THEN <<LastAssociation(AssociationsBefore(chunks, j - 1), chunks[j].chunkData[5])>>
          ELSE <<>>) \o RenderedFrom(chunks, j + 1)

IsPrefix(s, t) == Len(s) <= Len(t) /\ s = SubSeq(t, 1, Len(s))

\* C25: in a logStatObse call, what is logged for the mods that the chunks
\* of a Pluggy plugin chunk name is, chunk by chunk, the value that the
\* chunks of type 1 before it in that plugin chunk recorded last for the
\* mod, and ERROR where none of them recorded it, whatever other plugin
\* chunks recorded; for the plugin chunk in which the call raised, up to
\* the chunk that raised.
C25_ScratchMapOrdering ==
    [][logged' # logged =>
          \A i \in 1..Len(logged'.outs) :
              ClassOfSignature(plugin_chunks[i]) = "_PluggyChunk" =>
                  /\ IsPrefix(logged'.outs[i],
                              RenderedFrom(plugin_chunks[i].plugin_chunks, 1))
                  /\ (i < Len(logged'.outs) \/ logged'.err = NoErr) =>
                        logged'.outs[i] = RenderedFrom(plugin_chunks[i].plugin_chunks, 1)]_vars

\* The call logged a plugin chunk whose string found the name recorded
\* before it, then a plugin chunk whose string names the same mod and was
\* logged with ERROR: the list that records the mod comes after the string.
C25_ListAfterString ==
    /\ logged.called
    /\ cosave_type = "ObseCosave"
    /\ Len(logged.outs) = 2
    /\ Len(plugin_chunks) = 2
    /\ logged.outs[1] = <<Encode(tAb)>>
    /\ logged.outs[2] = <<ErrorText>>
    /\ \E j \in ChunksOf(2) :
          /\ UnpU32(New(2, j).chunkType) = 1
          /\ \E k \in 1..Len(EspAssociations(New(2, j).chunkVersion, New(2, j).chunkData, 0)) :
                EspAssociations(New(2, j).chunkVersion, New(2, j).chunkData, 0)[k][1] = 0

-----------------------------------------------------------------------------
(* C26: the size of a saved Pluggy file.                                   *)

\* The sum over the entries of 6 and the bytes of the name as written.
RECURSIVE EntriesBytes(_)
EntriesBytes(plugins) ==
    IF plugins = <<>> THEN 0
    ELSE 6 + Len(Encode(Lower(Head(plugins)[3]))) + EntriesBytes(Tail(plugins))

\* C26: a file that save has written is 10 + 4 + 1 + 4 bytes, 6 and the
\* name's bytes for every entry, the trailer's length and 4 bytes long,
\* whatever the trailer's length and whatever mapMasters did before.
C26_FileSize ==
    PluggySaved =>
        Len(disk.cosave_path.bytes)
            = 10 + 4 + 1 + 4 + EntriesBytes(pluggy.plugins) + Len(pluggy.other) + 4

\* A file saved from an object whose trailer has fewer than four bytes,
\* after a mapMasters call that changed the length of a name.
C26_ShortTrailerSaved ==
    /\ PluggySaved
    /\ Len(pluggy.other) < 4
    /\ mapCount >= 1
    /\ Len(disk.cosave_path.bytes) # Len(w.orig.bytes)

-----------------------------------------------------------------------------
(* C27: the dialect in effect after a sequence of get_cosave_type calls.   *)

OlderGames == {"Oblivion", "Skyrim", "Fallout3", "FalloutNV"}
NewerGames == {"Skyrim Special Edition", "Fallout4"}

\* The header tag of a game, written out letter by letter.
TagOfGame(game) ==
    CASE game = "Oblivion" -> <<79, 66, 83, 69>>
      [] game \in {"Skyrim", "Skyrim Special Edition"} -> <<83, 75, 83, 69>>
      [] game = "Fallout4" -> <<70, 52, 83, 69>>
      [] game = "Fallout3" -> <<70, 79, 83, 69>>
      [] game = "FalloutNV" -> <<78, 86, 83, 69>>

\* A get_cosave_type(game) call leaves the header tag of game, and a call
\* with an unknown name returns None and leaves the tag as it was.
SelectionSetsTag(game) ==
    IF game \in OlderGames \cup NewerGames
    THEN savefile_tag' = TagOfGame(game) /\ cosave_type' # "None"
    ELSE savefile_tag' = savefile_tag /\ cosave_type' = "None"

\* A get_cosave_type(game) call leaves the master-list tags of game.
SelectionSetsMasterTags(game) ==
    CASE game \in OlderGames -> espm_chunk_type' = {SDOM}
      [] game \in NewerGames -> espm_chunk_type' = {SDOM, DOML}
      [] OTHER -> espm_chunk_type' = espm_chunk_type

\* C27: after every get_cosave_type call the header tag and the master-list
\* tags are those of the game just selected: an older game leaves 'SDOM'
\* alone also after a newer one, and an unknown name changes neither.
C27_DialectNotSticky ==
    [][\A game \in Games :
          GetCosaveType(game) => SelectionSetsTag(game) /\ SelectionSetsMasterTags(game)]_vars

\* The header tag alone does follow the last known game selected.
C27_TagFollowsSelection ==
    [][\A game \in Games : GetCosaveType(game) => SelectionSetsTag(game)]_vars

\* An older game's class is selected while 'DOML' is still a master-list tag.
C27_OlderGameAfterNewer ==
    /\ selects = 2
    /\ cosave_type \in {"ObseCosave", "xSECoSave"}
    /\ espm_chunk_type = {SDOM, DOML}

-----------------------------------------------------------------------------
(* C28: a Pluggy file that is constructed and then loaded.                 *)

\* Versions on both sides of the constructor's ceiling and of load's floor.
VersionsAtTheLimits ==
    {0, PluggyMaxVersion - 4096, PluggyMaxVersion, PluggyMaxVersion + 1,
     PluggyMinVersion - 1, PluggyMinVersion, PluggyMinVersion + 1}

\* Well-formed files of these versions: one entry, a trailer of five bytes,
\* the right checksum.
FilesAtTheLimits ==
    {MkPluggy(TagPluggySave, version, 0, << <<1, 0, tAb>> >>, <<9, 8, 7, 6, 5>>, 0) :
        version \in VersionsAtTheLimits}

\* C28: some version is accepted by the constructor's header check and by
\* load's minimum-version check, so that a well-formed file of that version
\* (one of the files at the limits, or the file on disk) can be constructed
\* and then loaded.
C28_ConstructedThenLoaded ==
    (PluggyConstructed /\ loads > 0) =>
        \E f \in FilesAtTheLimits \cup {disk.cosave_path.bytes} :
            /\ PluggyHeaderInit(f).err = NoErr
            /\ PluggyLoadOf(f, PluggyNew).obj.valid

\* As long as the file is the one the object was constructed on, no load
\* makes the object valid.
C28_ConstructedFileNeverLoads ==
    (PluggyConstructed /\ loads > 0) => ~pluggy.valid /\ err # NoErr

\* A load was tried on the file the object was constructed on.
C28_LoadOfConstructedFile == PluggyConstructed /\ loads > 0

-----------------------------------------------------------------------------
(* C29: the object's fields across loads.                                  *)

\* A step that is a load() call which raised.
LoadRaised == loads' = loads + 1 /\ err' # NoErr

\* version, entries and trailer are what they were before the step.
LoadedFieldsKept ==
    /\ pluggy'.version = pluggy.version
    /\ pluggy'.plugins = pluggy.plugins
    /\ pluggy'.other = pluggy.other

\* C29: a load that raises, on a new object or on one loaded before, leaves
\* the object not valid or leaves version, entries and trailer as they were;
\* so a valid object holds the fields of one load that completed.
C29_ConsistentAcrossLoads ==
    [][LoadRaised => (~pluggy'.valid \/ LoadedFieldsKept)]_vars

\* A load that raises on an object that is not valid leaves it not valid.
C29_FailedLoadOfNewObject ==
    [][(LoadRaised /\ ~pluggy.valid) => ~pluggy'.valid]_vars

\* A valid object after a second load that raised, holding a version load
\* rejects or a trailer too short for the end control.
C29_ValidAfterFailedReload ==
    /\ kind = "pluggy"
    /\ loads = 2
    /\ err # NoErr
    /\ pluggy.valid
    /\ (pluggy.version < PluggyMinVersion \/ Len(pluggy.other) < 4)

-----------------------------------------------------------------------------
(* C30: the end control of a saved Pluggy file.                            *)

\* The four bytes before the checksum hold their own offset, the size of the
\* file less 8.
EndControlIsOffset ==
    UnpU32(Read(disk.cosave_path.bytes, Len(disk.cosave_path.bytes) - 8, 4))
        = Len(disk.cosave_path.bytes) - 8

\* The file starts with the tag, version, marker, count and entries of the
\* object, unaltered.
HeadUnaltered ==
    /\ Len(disk.cosave_path.bytes) >= Len(SavedHead)
    /\ SubSeq(disk.cosave_path.bytes, 1, Len(SavedHead)) = SavedHead

\* C30: the end control save writes is the offset it is written at, the size
\* of the file less 8, and it replaces bytes of the trailer only: whatever
\* the trailer's length, tag, version, marker, count and entries are written
\* unaltered.
C30_EndControlInTrailer ==
    PluggySaved => EndControlIsOffset /\ HeadUnaltered

\* The value of the end control is the offset for every trailer length.
C30_EndControlValue ==
    PluggySaved => EndControlIsOffset

\* With a trailer of four bytes or more the head is unaltered.
C30_HeadKeptBeforeLongTrailer ==
    (PluggySaved /\ Len(pluggy.other) >= 4) => HeadUnaltered

\* A file saved from a trailer shorter than four bytes, in which the end
\* control has replaced bytes of the last entry.
C30_EndControlInEntries ==
    PluggySaved /\ Len(pluggy.other) < 4 /\ ~HeadUnaltered

====
